---------------------------- MODULE Spec2Model ----------------------------
(***************************************************************************)
(* A model of the admission-control handlers of nil-go/sloth:              *)
(*   - package rate: the counter table, counter.Inc and Handler.Handle;    *)
(*   - package sampling: Handler.Handle, WithBuffer and the pooled buffer. *)
(* Calls are modelled at the granularity of their atomic operations        *)
(* (atomic loads, stores, swaps, channel operations, downstream calls), so *)
(* that the same definitions serve the sequential specifications (one      *)
(* caller) and the concurrent ones (several callers).                      *)
(***************************************************************************)
EXTENDS Integers, Sequences, FiniteSets, TLC

(***************************************************************************)
(* Bounds of the model.                                                    *)
(***************************************************************************)
\* Handle calls made in the sequential rate specification.
MaxCalls == 4
\* Handle calls made in the counter-table (several cells) specification.
MaxCellCalls == 3
\* Record timestamps are drawn from 0..MaxTime (nanoseconds).
MaxTime == 3
\* The values given to WithFirst are 1..MaxFirst.
MaxFirst == 2
\* The values given to WithEvery are 0..MaxEvery.
MaxEvery == 2
\* The value given to WithInterval (nanoseconds).
Interval == 2
\* Concurrent callers of rate.Handler.Handle.
NumProcs == 3
\* Handle calls the concurrent callers make when each may call again.
MaxRaceCalls == 6
\* The values given to WithFirst when each caller may call again.
MaxRaceFirst == 3
\* Sampling Handle calls made in a buffered scope (more than the queue holds).
MaxRecords == 10
\* Concurrent callers of sampling Handle in one scope.
NumBufProcs == 2
\* Sampling Handle calls the concurrent callers make.
MaxConcRecords == 3
\* Sampling Handle calls made over the lifetimes of two scopes.
MaxScopeRecords == 11
\* Sampling Handle calls made with every sampling decision and context.
MaxSampleRecords == 4
\* Sampling Handle calls made on a full queue with a failing downstream handler.
MaxErrRecords == 2
\* Calls of sampling Handler.Enabled.
MaxAsked == 2
\* Handle calls made on each handler after construction.
MaxNewCalls == 2
\* Handle calls made on a rate limiter built with every choice of options.
MaxDefaultCalls == 2
\* Handle calls two concurrent callers make on one counter, one after another.
MaxStaleCalls == 4
\* Request scopes (calls of WithBuffer), and buffers the pool may have to make.
NumScopes == 3
\* Sampling Handle calls made while scopes are opened and released concurrently.
MaxPoolRecords == 2
\* Sampling Handle calls made with several handlers and contexts on a full queue.
MaxSnapRecords == 2
\* Sampling Handle calls concurrent callers make over two successive scopes.
MaxReuseRecords == 3
\* Calls of one scope's release function.
MaxReleases == 2
\* Sampling Handle calls made in scopes released more than once.
MaxRepeatRecords == 1
\* The largest size given to WithBufferSize.
MaxBufferSize == 2
\* Sampling Handle calls made on a queue of the configured size.
MaxSizeRecords == 3
\* Arrays allocated for overflow slices.
MaxArrays == 3
\* Handle calls of the otel handler.
MaxOtelCalls == 2
\* Calls of otel.TraceSampler.
MaxSamplerCalls == 2
\* Handlers derived from the rate handler by WithAttrs and WithGroup.
MaxDerived == 2
\* Calls of the rate handler's Enabled.
MaxRateAsked == 1
\* Rate Handle calls made through the rate handler and the derived ones.
MaxDerivedCalls == 2
\* Concurrent rate Handle calls with timestamps in several windows.
MaxWindowCalls == 3
\* Rate Handle calls made with keys of several lengths.
MaxHashCalls == 2

(***************************************************************************)
(* log/slog levels, as used by rate/counter.go and the sampling handler.   *)
(***************************************************************************)
LevelDebug == -4
LevelInfo == 0
LevelWarn == 4
LevelError == 8

Min(a, b) == IF a < b THEN a ELSE b
Max(a, b) == IF a > b THEN a ELSE b

\* Go's integer division truncates toward zero.
GoDiv(a, b) ==
    IF (a >= 0) = (b > 0) THEN (IF a >= 0 THEN a ELSE -a) \div (IF b > 0 THEN b ELSE -b)
    ELSE -((IF a >= 0 THEN a ELSE -a) \div (IF b > 0 THEN b ELSE -b))

(***************************************************************************)
(* rate/counter.go: the counter table.                                     *)
(***************************************************************************)
countersPerLevel == 4096
gapPerLevel == LevelError - LevelWarn
levels == GoDiv(LevelError - LevelDebug, gapPerLevel) + 1

\* 32-bit words are kept as <<high 16 bits, low 16 bits>>.
Half == 256 * 256
offset32 == <<33052, 40389>>   \* 2166136261
prime32 == <<256, 403>>        \* 16777619

RECURSIVE Xor(_, _)
Xor(a, b) ==
    IF a = 0 THEN b
    ELSE IF b = 0 THEN a
    ELSE (((a % 2) + (b % 2)) % 2) + (2 * Xor(a \div 2, b \div 2))

\* hash ^= uint32(str[i]): a byte only touches the low half.
XorByte(h, byte) == <<h[1], Xor(h[2], byte)>>

\* A product that keeps only the low half of the multiplier.
Mul32LowHalf(h, k) ==
    LET low == h[2] * k[2]
    IN  <<((h[1] * k[2]) + (low \div Half)) % Half, low % Half>>

\* hash *= prime32, modulo 2^32.
Mul32(h, k) ==
    LET low == h[2] * k[2]
    IN  <<((h[1] * k[2]) + (h[2] * k[1]) + (low \div Half)) % Half, low % Half>>

RECURSIVE fnv32aFrom(_, _, _)
fnv32aFrom(hash, str, i) ==
    IF i > Len(str) THEN hash
    ELSE fnv32aFrom(Mul32(XorByte(hash, str[i]), prime32), str, i + 1)

fnv32a(str) == fnv32aFrom(offset32, str, 1)

\* uint32 % countersPerLevel: countersPerLevel divides 2^16.
ShardOf(hash) == hash[2] % countersPerLevel

getBucketSwapped(level) ==
    GoDiv(Max(LevelDebug, Min(LevelError, level)) - LevelDebug, gapPerLevel)

getBucketUnclamped(level) == GoDiv(level - LevelDebug, gapPerLevel)

\* i := (min(slog.LevelDebug, max(slog.LevelError, level)) - slog.LevelDebug) / gapPerLevel
getBucket(level) ==
    GoDiv(Min(LevelDebug, Max(LevelError, level)) - LevelDebug, gapPerLevel)

\* counters.get: the cell &c[i][j].
get(level, key) == <<getBucket(level), ShardOf(fnv32a(key))>>

\* The indices are inside [levels][countersPerLevel]counter; indexing the
\* array outside of it panics.
InTable(cell) ==
    /\ cell[1] \in 0..(levels - 1)
    /\ cell[2] \in 0..(countersPerLevel - 1)

(***************************************************************************)
(* Inputs: messages are byte strings.                                      *)
(***************************************************************************)
MsgMsg == <<109, 115, 103>>    \* "msg"
MsgA == <<97>>                 \* "a"
Msgs == {MsgMsg, MsgA}
MsgEmpty == <<>>               \* ""
MsgAb == <<97, 98>>            \* "ab"
MsgFoobar == <<102, 111, 111, 98, 97, 114>>    \* "foobar"
Keys == Msgs \cup {MsgEmpty, MsgAb, MsgFoobar}
Levels == {LevelDebug - 4, LevelDebug, LevelInfo, LevelWarn, LevelError, LevelError + 4}
Times == 0..MaxTime
Procs == 1..NumProcs

\* The counter tables the handlers can point to: New allocates the first.
Tables == 1..(MaxDerived + 1)

\* The cell of table t at the indices get returned.
At(t, cell) == <<cell[1], cell[2], t>>

\* The cells of the tables the inputs can address in any level bucket.
Cells == (0..(levels - 1)) \X {ShardOf(fnv32a(m)) : m \in Keys} \X Tables

(***************************************************************************)
(* rate/rate.go: New and its defaults.                                     *)
(***************************************************************************)
DefaultEvery == 100
DefaultFirst == 100
Second == 1000000000

NewEveryZeroDefault(withFirst, withEvery, withInterval) ==
    LET f == IF withFirst = <<>> THEN 0 ELSE withFirst[Len(withFirst)]
        e == IF withEvery = <<>> THEN 0 ELSE withEvery[Len(withEvery)]
        d == IF withInterval = <<>> THEN 0 ELSE withInterval[Len(withInterval)]
    IN  [first |-> IF f = 0 THEN DefaultFirst ELSE f,
         every |-> IF e = 0 THEN DefaultEvery ELSE e,
         interval |-> IF d <= 0 THEN Second ELSE d]

\* New(handler, opts...): each option is given as the sequence of the values
\* passed to it, in order (<<>>: the option is absent); the last one wins.
OptionOr(opt, zero) == IF opt = <<>> THEN zero ELSE opt[Len(opt)]

New(withFirst, withEvery, withInterval) ==
    LET f == OptionOr(withFirst, 0)
        e == OptionOr(withEvery, DefaultEvery)
        d == OptionOr(withInterval, 0)
    IN  [first |-> IF f = 0 THEN DefaultFirst ELSE f,
         every |-> e,
         interval |-> IF d <= 0 THEN Second ELSE d]

VARIABLES
    first,       \* Handler.first
    every,       \* Handler.every
    interval,    \* Handler.interval
    resetAt,     \* counter.resetAt of every cell
    counter,     \* counter.counter of every cell
    rpc,         \* where each caller of rate Handle is
    rrec,        \* the record each caller handles
    rcall,       \* the index in calls of each caller's call
    resetAfter,  \* Inc's local resetAfter of each caller
    calls,       \* history: the Handle calls in the order they started
    delivered,   \* history: the calls the downstream handler received, in order
    dsRet,       \* what the downstream handler returned last
    ret          \* what each caller's last Handle call returned

rateVars == <<first, every, interval, resetAt, counter, rpc, rrec, rcall,
              resetAfter, calls, delivered, dsRet, ret>>

VARIABLES
    level,       \* sampling Handler.level: the minimum level
    made,        \* the buffers bufferPool.New has created
    pool,        \* how many times each buffer sits in bufferPool
    entries,     \* buffer.entries of every buffer: the channel's contents
    recvq,       \* the callers parked in a receive from buffer.entries, oldest first
    overflow,    \* buffer.overflow of every buffer: the slice's three words
    arrays,      \* the arrays allocated for the overflow slices: their elements
    drained,     \* buffer.drained of every buffer
    ctxBuf,      \* the buffer bound to each scope's context (0: scope not opened)
    released,    \* how many times each scope's release function was called
    relpc,       \* where the running call of each scope's release function is
    rov,         \* the release function's local slice: the words of b.overflow it loaded
    rn,          \* the release function's local number: the elements its clear has zeroed
    rw,          \* the words of the next element the release function's clear has zeroed
    spc,         \* where each caller of sampling Handle is
    scall,       \* the index in recs of each caller's call
    sov,         \* each caller's local slice: the words of b.overflow it loaded, or will store
    sn,          \* each caller's local number: len(b.entries) read for Grow, or the elements a loop has done
    se,          \* the entry each caller received from b.entries or loaded from an array
    sw,          \* the words of an entry each caller's running copy has done
    sa,          \* the array each caller's growslice allocated and is filling (0: none)
    recs,        \* history: the sampling Handle calls in the order they started
    out,         \* history: the downstream Handle calls, in order
    sret         \* what each caller's last sampling Handle call returned

bufVars == <<level, made, pool, entries, recvq, overflow, arrays, drained, ctxBuf,
             released, relpc, rov, rn, rw, spc, scall, sov, sn, se, sw, sa, recs,
             out, sret>>

VARIABLES
    rateNew,     \* rate.New: the handler it was given and how it ended
    sampNew,     \* sampling.New: the handler and sampler it was given and how it ended
    asked,       \* history: the calls of sampling Handler.Enabled and their results
    rateOpts     \* rate.New: the values its options were given

VARIABLES
    handlers,    \* the rate Handler values: New's and those WithAttrs/WithGroup returned
    renabled     \* history: the calls of rate Handler.Enabled and their results

derivVars == <<handlers, renabled>>

\* The sampling handler that has the WithBufferSize option.
VARIABLES
    sizeOpt,     \* the sizes WithBufferSize was given, in order
    bufferSize   \* options.bufferSize after New: the capacity of buffer.entries

sizeVars == <<sizeOpt, bufferSize>>

\* Package otel.
VARIABLES
    otelNew,     \* otel.New: the handler it was given and how it ended
    otelCfg,     \* otel Handler.recordEvent and Handler.passThrough
    opc,         \* where the caller of otel Handle is
    ocalls,      \* history: the otel Handle calls and what they returned
    spanEvents,  \* history: the events recorded on spans, by call
    odown,       \* history: the calls the otel handler's downstream handler received
    sampleAsked  \* history: the calls of TraceSampler and their results

otelVars == <<otelNew, otelCfg, opc, ocalls, spanEvents, odown, sampleAsked>>

extVars == <<derivVars, sizeVars, otelVars>>

auxVars == <<rateNew, sampNew, asked, rateOpts, extVars>>

vars == <<rateVars, bufVars, auxVars>>

NoRec == [level |-> 0, msg |-> <<>>, time |-> 0]
Results == {"nil", "err"}

\* The pool's buffers hold a channel of 8 entries.
QueueCap == 8
BufIds == 1..NumScopes
Scopes == 1..NumScopes
BufProcs == 1..NumBufProcs

\* The nil slog.Handler; the handlers are numbered from 0.
NilHandler == -1

\* entry{}: the zero entry, whose handler and context are nil and whose record
\* is the zero Record (level Info).  Records and contexts are numbered from 1.
NoEntry == [handler |-> NilHandler, ctx |-> 0, id |-> 0, level |-> 0]

\* An entry is 40 words in memory (two interfaces and a slog.Record), which a
\* copy reads and writes one after another.  Of these the model keeps one
\* word for each part it tells entries apart by: the handler, the context,
\* the record (its time, message and attributes) and the record's level.
EntryWords == {"handler", "ctx", "id", "level"}

\* The arrays a run can allocate for the overflow slices; 0 is no array, the
\* array of the nil slice.
ArrIds == 0..MaxArrays

\* A slice is three words in memory: the pointer to its array, its length
\* and its capacity.  The nil slice:
NilSlice == [ptr |-> 0, len |-> 0, cap |-> 0]

Words == {"ptr", "len", "cap"}

\* A local slice none of whose words is loaded yet.
Unloaded == -1
NotLoaded == [ptr |-> Unloaded, len |-> Unloaded, cap |-> Unloaded]

\* bufferPool.New: &buffer{entries: make(chan entry, 8)}, the overflow slice
\* nil and the flag false; nobody is inside the buffer's methods.
BufFresh ==
    /\ recvq = [b \in BufIds |-> <<>>]
    /\ overflow = [b \in BufIds |-> NilSlice]
    /\ arrays = [a \in ArrIds |-> <<>>]
    /\ drained = [b \in BufIds |-> FALSE]
    /\ released = [s \in Scopes |-> 0]
    /\ relpc = [s \in Scopes |-> "idle"]
    /\ rov = [s \in Scopes |-> NotLoaded]
    /\ rn = [s \in Scopes |-> 0]
    /\ rw = [s \in Scopes |-> {}]
    /\ sov = [p \in BufProcs |-> NotLoaded]
    /\ sn = [p \in BufProcs |-> 0]
    /\ sw = [p \in BufProcs |-> {}]
    /\ sa = [p \in BufProcs |-> 0]

\* The sampling handler with no scope opened and no buffer created.
\* The state of the sampling handler's buffers before any call.
BufStart(minLevel) ==
    /\ level = minLevel
    /\ made = {}
    /\ pool = [b \in BufIds |-> 0]
    /\ entries = [b \in BufIds |-> <<>>]
    /\ ctxBuf = [s \in Scopes |-> 0]
    /\ BufFresh
    /\ spc = [p \in BufProcs |-> "idle"]
    /\ scall = [p \in BufProcs |-> 0]
    /\ se = [p \in BufProcs |-> NoEntry]
    /\ recs = <<>>
    /\ out = <<>>
    /\ sret = [p \in BufProcs |-> "none"]

DefaultBufferSize == 10

\* WithBufferSize(size uint): if size > 0 { options.bufferSize = size }, on
\* the zero value of options.bufferSize.
RECURSIVE WithBufferSizes(_, _)
WithBufferSizes(size, opts) ==
    IF opts = <<>> THEN size
    ELSE WithBufferSizes(IF Head(opts) > 0 THEN Head(opts) ELSE size, Tail(opts))

\* New: if option.bufferSize < 0 { option.bufferSize = 10 }, bufferSize being
\* a uint.
NewBufferSize(opts) ==
    IF WithBufferSizes(0, opts) < 0 THEN DefaultBufferSize ELSE WithBufferSizes(0, opts)

\* New of that handler, given the sizes of its WithBufferSize options.
SizeWith(opts) ==
    /\ sizeOpt = opts
    /\ bufferSize = NewBufferSize(opts)

\* The sampling handler with the queue of 8 entries; the handler with the
\* WithBufferSize option is built with no option and stays idle.
BufInit(minLevel) ==
    /\ SizeWith(<<>>)
    /\ BufStart(minLevel)

\* A nil slog.Handler or sampler, and one that is not nil.
Nil == "nil"
Given == "given"

PanicNilHandler == "cannot create Handler with nil handler"
PanicNilSampler == "cannot create Handler with nil sampler"
NoPanic == "none"

NewUnchecked(handler) == NoPanic

\* rate.New: if handler == nil { panic("cannot create Handler with nil handler") }
NewCheck(handler) == IF handler = Nil THEN PanicNilHandler ELSE NoPanic

SNewChecksHandlerOnly(handler, sampler) ==
    IF handler = Nil THEN PanicNilHandler ELSE NoPanic

\* sampling.New: the handler is checked first, then the sampler.
SNewCheck(handler, sampler) ==
    IF handler = Nil THEN PanicNilHandler
    ELSE IF sampler = Nil THEN PanicNilSampler
    ELSE NoPanic

\* The two constructors were called with these arguments; a constructor that
\* panicked returned no Handler.
\* The span contexts with any of the trace flags F: a zero trace or span id
\* makes the span context invalid, and a context without a span has the zero
\* span context of a span that is not recording.
SpanCtxs(F) == [tid : {0, 1}, sid : {0, 1}, flags : F, recording : BOOLEAN]

\* spanContext.IsValid(): the trace id and the span id are not zero.
IsValid(c) == c.tid # 0 /\ c.sid # 0

\* spanContext.IsSampled(): the sampled bit of the trace flags.
IsSampled(c) == (c.flags % 2) = 1

\* otel.New with the values given to WithRecordEvent(passThrough), in order.
OtelNew(opts) ==
    [recordEvent |-> opts # <<>>,
     passThrough |-> opts # <<>> /\ opts[Len(opts)]]

\* otel.New: if handler == nil { panic("cannot create Handler with nil handler") }
ONewCheck(handler) == IF handler = Nil THEN PanicNilHandler ELSE NoPanic

\* otel.New(handler, opts...): a New that panicked returned no Handler.
OtelWith(handler, opts) ==
    /\ otelNew = [handler |-> handler, panic |-> ONewCheck(handler)]
    /\ otelCfg = IF ONewCheck(handler) = NoPanic THEN OtelNew(opts) ELSE Nil
    /\ opc = "idle"
    /\ ocalls = <<>>
    /\ spanEvents = <<>>
    /\ odown = <<>>
    /\ sampleAsked = <<>>

AuxStart(rateHandler, sampHandler, sampler) ==
    /\ rateNew = [handler |-> rateHandler, panic |-> NewCheck(rateHandler)]
    /\ sampNew = [handler |-> sampHandler, sampler |-> sampler,
                  panic |-> SNewCheck(sampHandler, sampler)]
    /\ asked = <<>>
    /\ renabled = <<>>

\* The otel handler is built with no option and stays idle.
AuxInit(rateHandler, sampHandler, sampler) ==
    /\ AuxStart(rateHandler, sampHandler, sampler)
    /\ OtelWith(Given, <<>>)

\* Both handlers were built from a handler and a sampler that are not nil.
Built == AuxInit(Given, Given, Given)

RateInit(cfg) ==
    /\ first = cfg.first
    /\ every = cfg.every
    /\ interval = cfg.interval
    /\ resetAt = [c \in Cells |-> 0]
    /\ counter = [c \in Cells |-> 0]
    /\ rpc = [p \in Procs |-> "idle"]
    /\ rrec = [p \in Procs |-> NoRec]
    /\ rcall = [p \in Procs |-> 0]
    /\ resetAfter = [p \in Procs |-> 0]
    /\ calls = <<>>
    /\ delivered = <<>>
    /\ dsRet = "none"
    /\ ret = [p \in Procs |-> "none"]

\* The rate limiter as New(handler, WithFirst(..), WithEvery(..),
\* WithInterval(..)) builds it, each option given as the sequence of its values.
RateWith(withFirst, withEvery, withInterval) ==
    /\ RateInit(New(withFirst, withEvery, withInterval))
    /\ rateOpts = [first |-> withFirst, every |-> withEvery, interval |-> withInterval]
    /\ handlers = <<[handler |-> <<>>, counts |-> 1]>>

\* h.counts of the handler a call goes through.
CountsOf(h) == handlers[h].counts

\* A cell that depends on the level only.
CellOfLevel(p) == At(CountsOf(calls[rcall[p]].via), get(rrec[p].level, MsgMsg))

\* The cell a caller's record selects: h.counts.get(record.Level, record.Message).
CellOf(p) == At(CountsOf(calls[rcall[p]].via), get(rrec[p].level, rrec[p].msg))

\* Handle is entered with a record: count := h.counts.get(...), now := t.UnixNano(),
\* resetAfter := c.resetAt.Load().
HandleOn(p, H, L, M, T, maxCalls) ==
    /\ rpc[p] = "idle"
    /\ Len(calls) < maxCalls
    /\ \E h \in H, l \in L, m \in M, t \in T :
        LET r == [level |-> l, msg |-> m, time |-> t]
        IN  /\ rrec' = [rrec EXCEPT ![p] = r]
            /\ calls' = Append(calls, [level |-> l, msg |-> m, time |-> t, via |-> h,
                                       cell |-> At(CountsOf(h), get(l, m)),
                                       n |-> 0, out |-> "pending", path |-> "none",
                                       seen |-> Cardinality({i \in 1..Len(calls) :
                                                                calls[i].path # "none"})])
            /\ rcall' = [rcall EXCEPT ![p] = Len(calls) + 1]
            /\ IF InTable(get(l, m))
               THEN /\ resetAfter' = [resetAfter EXCEPT
                                           ![p] = resetAt[At(CountsOf(h), get(l, m))]]
                    /\ rpc' = [rpc EXCEPT ![p] = "loaded"]
               ELSE /\ rpc' = [rpc EXCEPT ![p] = "panic"]
                    /\ UNCHANGED resetAfter
    /\ ret' = [ret EXCEPT ![p] = "none"]
    /\ UNCHANGED <<first, every, interval, resetAt, counter, delivered, dsRet>>
    /\ UNCHANGED <<bufVars, auxVars>>

\* Handle is entered on the handler New returned.
HandleStart(p, L, M, T, maxCalls) == HandleOn(p, {1}, L, M, T, maxCalls)

\* Inc returned n: Handle's decision is local to the caller.
Returned(p, n, path) ==
    /\ calls' = [calls EXCEPT ![rcall[p]].n = n, ![rcall[p]].path = path]
    /\ rpc' = [rpc EXCEPT ![p] = "decide"]

WindowLiveStrict(p) == resetAfter[p] >= rrec[p].time

\* if resetAfter > now
WindowLive(p) == resetAfter[p] > rrec[p].time

\* if resetAfter > now { return c.counter.Add(1) }; otherwise c.counter.Store(1).
IncCount(p) ==
    /\ rpc[p] = "loaded"
    /\ IF WindowLive(p)
       THEN /\ counter' = [counter EXCEPT ![CellOf(p)] = @ + 1]
            /\ Returned(p, counter[CellOf(p)] + 1, "live")
       ELSE /\ counter' = [counter EXCEPT ![CellOf(p)] = 1]
            /\ rpc' = [rpc EXCEPT ![p] = "stored"]
            /\ UNCHANGED calls
    /\ UNCHANGED <<first, every, interval, resetAt, rrec, rcall, resetAfter,
                   delivered, dsRet, ret>>
    /\ UNCHANGED <<bufVars, auxVars>>

\* c.resetAt.CompareAndSwap(resetAfter, newResetAfter); on failure the caller
\* goes on to c.counter.Add(1).
CasAlways(p) == TRUE

\* CompareAndSwap succeeds when resetAt still holds the value the caller loaded.
CasSucceeds(p) == resetAt[CellOf(p)] = resetAfter[p]

newResetAfterFromOld(p) == resetAfter[p] + interval

\* newResetAfter := now + interval.Nanoseconds()
newResetAfter(p) == rrec[p].time + interval

IncCas(p) ==
    /\ rpc[p] = "stored"
    /\ IF CasSucceeds(p)
       THEN /\ resetAt' = [resetAt EXCEPT ![CellOf(p)] = newResetAfter(p)]
            /\ Returned(p, 1, "reset")
       ELSE /\ rpc' = [rpc EXCEPT ![p] = "raced"]
            /\ UNCHANGED <<resetAt, calls>>
    /\ UNCHANGED <<first, every, interval, counter, rrec, rcall, resetAfter,
                   delivered, dsRet, ret>>
    /\ UNCHANGED <<bufVars, auxVars>>

\* The reincrement after a lost race: return c.counter.Add(1).
IncRaced(p) ==
    /\ rpc[p] = "raced"
    /\ counter' = [counter EXCEPT ![CellOf(p)] = @ + 1]
    /\ Returned(p, counter[CellOf(p)] + 1, "raced")
    /\ UNCHANGED <<first, every, interval, resetAt, rrec, rcall, resetAfter,
                   delivered, dsRet, ret>>
    /\ UNCHANGED <<bufVars, auxVars>>

DropsFirstOnly(n) == n > first

DropsNothingAtZero(n) == n > first /\ every # 0 /\ (n - first) % every # 0

DropsEveryOffByOne(n) == n > first /\ (every = 0 \/ (n - first) % every = 0)

\* n > h.first && (h.every == 0 || (n-h.first)%h.every != 0)
Drops(n) == n > first /\ (every = 0 \/ (n - first) % every # 0)

ForwardKeepsNil(r) == "nil"

\* Handle returns what h.handler.Handle(ctx, record) returned.
ForwardResult(r) == r

\* Handle's outcome: return nil, or call the downstream handler and return
\* its result.
HandleDecide(p, R) ==
    /\ rpc[p] = "decide"
    /\ IF Drops(calls[rcall[p]].n)
       THEN /\ calls' = [calls EXCEPT ![rcall[p]].out = "dropped"]
            /\ ret' = [ret EXCEPT ![p] = "nil"]
            /\ UNCHANGED <<delivered, dsRet>>
       ELSE \E r \in R :
            /\ calls' = [calls EXCEPT ![rcall[p]].out = "forwarded"]
            /\ delivered' = Append(delivered,
                                   [call |-> rcall[p], rec |-> rrec[p],
                                    handler |-> handlers[calls[rcall[p]].via].handler])
            /\ dsRet' = r
            /\ ret' = [ret EXCEPT ![p] = ForwardResult(r)]
    /\ rpc' = [rpc EXCEPT ![p] = "idle"]
    /\ UNCHANGED <<first, every, interval, resetAt, counter, rrec, rcall, resetAfter>>
    /\ UNCHANGED <<bufVars, auxVars>>

\* Enabled returns h.handler.Enabled(ctx, level).
REnabled(L, D, maxAsked) ==
    /\ Len(renabled) < maxAsked
    /\ \E l \in L, d \in D :
        renabled' = Append(renabled, [level |-> l, ds |-> d, res |-> d])
    /\ UNCHANGED <<rateVars, bufVars, rateNew, sampNew, asked, rateOpts, handlers, sizeVars, otelVars>>

DerivedCountsFresh(c) == c + 1

\* WithAttrs and WithGroup return a copy of the Handler value: the copy's
\* counts is the same pointer.
DerivedCounts(c) == c

\* h.handler = h.handler.WithAttrs(attrs) or h.handler.WithGroup(name) on the
\* copy of handler h that is returned.
Derive(h, kind) ==
    /\ Len(handlers) <= MaxDerived
    /\ handlers' = Append(handlers, [handler |-> Append(handlers[h].handler, kind),
                                     counts |-> DerivedCounts(handlers[h].counts)])
    /\ UNCHANGED <<rateVars, bufVars, rateNew, sampNew, asked, rateOpts, renabled, sizeVars, otelVars>>

RWithAttrs(h) == Derive(h, "attrs")

RWithGroup(h) == Derive(h, "group")

(***************************************************************************)
(* package otel: Handler.Handle, eventHandler.Enabled and TraceSampler.    *)
(***************************************************************************)
EventEnabledRecording(c) == c.recording

\* eventHandler.Enabled: span.IsRecording() && span.SpanContext().IsSampled()
EventEnabled(c) == c.recording /\ IsSampled(c)

\* Handle is entered: the trace attributes are collected when the span
\* context is valid, then if h.recordEvent && h.eventHandler.Enabled(ctx).
OHandleStart(C, L, maxCalls) ==
    /\ otelNew.panic = NoPanic
    /\ opc = "idle"
    /\ Len(ocalls) < maxCalls
    /\ \E c \in C, l \in L :
        /\ ocalls' = Append(ocalls, [ctx |-> c, level |-> l, traced |-> IsValid(c),
                                     ret |-> "none"])
        /\ opc' = IF otelCfg.recordEvent /\ EventEnabled(c) THEN "event" ELSE "forward"
    /\ UNCHANGED <<otelNew, otelCfg, spanEvents, odown, sampleAsked>>
    /\ UNCHANGED <<rateVars, bufVars, rateNew, sampNew, asked, rateOpts, derivVars, sizeVars>>

\* h.eventHandler.Handle(ctx, record): span.RecordError at LevelError and
\* above, span.AddEvent below; then if !h.passThrough { return nil }.
OEvent ==
    /\ opc = "event"
    /\ spanEvents' = Append(spanEvents,
                            [call |-> Len(ocalls),
                             kind |-> IF ocalls[Len(ocalls)].level >= LevelError
                                      THEN "error" ELSE "event"])
    /\ IF ~otelCfg.passThrough
       THEN /\ opc' = "idle"
            /\ ocalls' = [ocalls EXCEPT ![Len(ocalls)].ret = "nil"]
       ELSE /\ opc' = "forward"
            /\ UNCHANGED ocalls
    /\ UNCHANGED <<otelNew, otelCfg, odown, sampleAsked>>
    /\ UNCHANGED <<rateVars, bufVars, rateNew, sampNew, asked, rateOpts, derivVars, sizeVars>>

\* handler := h.handler.WithAttrs(attrs); return handler.Handle(ctx, record),
\* the handler New returned having no groups.
OForward(R) ==
    /\ opc = "forward"
    /\ \E r \in R :
        /\ odown' = Append(odown, [call |-> Len(ocalls),
                                   traced |-> ocalls[Len(ocalls)].traced, res |-> r])
        /\ ocalls' = [ocalls EXCEPT ![Len(ocalls)].ret = r]
    /\ opc' = "idle"
    /\ UNCHANGED <<otelNew, otelCfg, spanEvents, sampleAsked>>
    /\ UNCHANGED <<rateVars, bufVars, rateNew, sampNew, asked, rateOpts, derivVars, sizeVars>>

TraceSamplerSampledOnly(c) == IsSampled(c)

\* TraceSampler: return !sc.IsValid() || sc.IsSampled()
TraceSampler(c) == ~IsValid(c) \/ IsSampled(c)

OSample(C, maxCalls) ==
    /\ Len(sampleAsked) < maxCalls
    /\ \E c \in C : sampleAsked' = Append(sampleAsked, [ctx |-> c, res |-> TraceSampler(c)])
    /\ UNCHANGED <<otelNew, otelCfg, opc, ocalls, spanEvents, odown>>
    /\ UNCHANGED <<rateVars, bufVars, rateNew, sampNew, asked, rateOpts, derivVars, sizeVars>>

(***************************************************************************)
(* package sampling: Handler.Handle, WithBuffer, buffer.buffer,            *)
(* buffer.drain and buffer.reset.                                          *)
(*                                                                         *)
(* A context is a scope number (its buffer is ctxBuf[c]) or 0, the         *)
(* background context with no buffer.  A downstream handler is a number:   *)
(* 0 is the handler given to New, the others come from WithAttrs or        *)
(* WithGroup.  A record is its ordinal among the Handle calls (id) and its *)
(* level.                                                                  *)
(***************************************************************************)
\* What the steps of Handle leave alone: the scopes, the pool and the release
\* functions; and what the steps of WithBuffer and of a release leave alone:
\* the callers of Handle.
scopeVars == <<level, made, pool, ctxBuf, released, relpc, rov, rn, rw>>
callVars == <<spc, scall, sov, sn, se, sw, sa, recs, out, sret>>

\* The buffer the caller's context holds: ctx.Value(contextKey{}).(*buffer).
BufOf(p) == ctxBuf[recs[scall[p]].ctx]

\* entry{handler: handler, ctx: ctx, record: record}
EntryOf(p) ==
    [handler |-> recs[scall[p]].handler, ctx |-> recs[scall[p]].ctx,
     id |-> scall[p], level |-> recs[scall[p]].level]

\* One call of a downstream handler's Handle, as the history records it.
Emit(e, via, p, r) ==
    out' = Append(out, [id |-> e.id, handler |-> e.handler, ctx |-> e.ctx,
                        via |-> via, by |-> scall[p], res |-> r])

\* Handle returns.
SReturn(p, r) ==
    /\ sret' = [sret EXCEPT ![p] = r]
    /\ spc' = [spc EXCEPT ![p] = "idle"]

DeferredAtLevel(l) == l <= level

\* record.Level < h.level
Deferred(l) == l < level

RouteBufferFirst(sampled, bound, l) ==
    IF bound THEN (IF Deferred(l) THEN "buffer" ELSE "drain") ELSE "forward"

RouteSampledDrains(sampled, bound, l) ==
    IF bound THEN (IF Deferred(l) /\ ~sampled THEN "buffer" ELSE "drain") ELSE "forward"

RouteDropsUnbuffered(sampled, bound, l) ==
    IF sampled THEN "forward"
    ELSE IF bound THEN (IF Deferred(l) THEN "buffer" ELSE "drain")
    ELSE IF Deferred(l) THEN "drop" ELSE "forward"

\* Where Handle goes: if h.sampler(ctx) { return h.handler.Handle(...) }; with a
\* buffer in the context, b.buffer below the minimum level and b.drain()
\* otherwise; in every other case h.handler.Handle.
Route(sampled, bound, l) ==
    IF sampled THEN "forward"
    ELSE IF bound THEN (IF Deferred(l) THEN "buffer" ELSE "drain")
    ELSE "forward"

\* Handle is entered: h.sampler(ctx), then the buffer of the context, then
\* the record's level decide where the call goes.
SHandleStart(p, C, L, H, S, maxRecords) ==
    /\ spc[p] = "idle"
    /\ Len(recs) < maxRecords
    /\ \E c \in C, l \in L, h \in H, sampled \in S :
        /\ c # 0 => ctxBuf[c] # 0
        /\ recs' = Append(recs, [level |-> l, ctx |-> c, handler |-> h,
                                 sampled |-> sampled, done |-> FALSE,
                                 flipped |-> FALSE, deferred |-> FALSE,
                                 before |-> {i \in 1..Len(recs) : recs[i].deferred}])
        /\ spc' = [spc EXCEPT ![p] = Route(sampled, c # 0, l)]
    /\ scall' = [scall EXCEPT ![p] = Len(recs) + 1]
    /\ sret' = [sret EXCEPT ![p] = "none"]
    /\ UNCHANGED <<entries, recvq, overflow, arrays, drained, sov, sn, se, out>>
    /\ UNCHANGED <<sw, sa, scopeVars, rateVars, auxVars>>

HandleSwallows(r) == "nil"

\* return h.handler.Handle(ctx, record): what Handle returns for what the
\* downstream handler returned.
HandleResult(r) == r

\* return h.handler.Handle(ctx, record), also buffer's handler.Handle(ctx, record)
\* once the buffer is drained.
SForward(p, R) ==
    /\ spc[p] = "forward"
    /\ \E r \in R :
        /\ Emit(EntryOf(p), "forward", p, r)
        /\ SReturn(p, HandleResult(r))
    /\ recs' = [recs EXCEPT ![scall[p]].done = TRUE]
    /\ UNCHANGED <<entries, recvq, overflow, arrays, drained, scall, sov, sn, se>>
    /\ UNCHANGED <<sw, sa, scopeVars, rateVars, auxVars>>

LoadsArmed(b) == FALSE

\* What b.drained.Load() returns.
LoadDrained(b) == drained[b]

\* buffer.buffer: if drained := b.drained.Load(); drained { return handler.Handle(...) }
SBufferLoad(p) ==
    /\ spc[p] = "buffer"
    /\ spc' = [spc EXCEPT ![p] = IF LoadDrained(BufOf(p)) THEN "forward" ELSE "send"]
    /\ UNCHANGED <<entries, recvq, overflow, arrays, drained, scall, sov, sn, se,
                   recs, out, sret>>
    /\ UNCHANGED <<sw, sa, scopeVars, rateVars, auxVars>>

SentResultErr == "err"

\* case b.entries <- entry{...}: return nil
SentResult == "nil"

\* The words of the set ws that the local slice h has not loaded yet.
ToLoad(h, ws) == {w \in ws : h[w] = Unloaded}

\* One load of a word of b.overflow into a local slice.  The accesses of
\* b.overflow are not synchronised: the words of the slice are loaded one at a
\* time, in an order Go leaves open, and stored one at a time, so that the
\* loads and stores of other callers fall between them.
LoadWord(h, b, w) == [h EXCEPT ![w] = overflow[b][w]]

\* Where a caller goes on once it has its entry from line 149's receive: to
\* the append when it has loaded the three words of b.overflow, to the loads
\* otherwise.
AfterRecv(h) == IF ToLoad(h, Words) = {} THEN "append" ELSE "app_e"

\* Where a caller parked in the receive of line 149 goes on when a sender
\* hands it an entry.
Woken(q) == AfterRecv(sov[q])

\* buffer.buffer: select { case b.entries <- entry{...}: return nil; default: ... }
\* A send hands the entry to the caller parked longest in a receive if there
\* is one, puts it in the channel if that has room, and fails otherwise.
SSend(p) ==
    /\ spc[p] = "send"
    /\ IF recvq[BufOf(p)] # <<>>
       THEN /\ recvq' = [recvq EXCEPT ![BufOf(p)] = Tail(@)]
            /\ se' = [se EXCEPT ![Head(recvq[BufOf(p)])] = EntryOf(p)]
            /\ spc' = [spc EXCEPT ![p] = "idle",
                                  ![Head(recvq[BufOf(p)])] = Woken(Head(recvq[BufOf(p)]))]
            /\ sret' = [sret EXCEPT ![p] = SentResult]
            /\ recs' = [recs EXCEPT ![scall[p]].done = TRUE,
                                    ![scall[p]].deferred = TRUE]
            /\ UNCHANGED entries
       ELSE IF Len(entries[BufOf(p)]) < QueueCap
       THEN /\ entries' = [entries EXCEPT ![BufOf(p)] = Append(@, EntryOf(p))]
            /\ recs' = [recs EXCEPT ![scall[p]].done = TRUE,
                                    ![scall[p]].deferred = TRUE]
            /\ SReturn(p, SentResult)
            /\ UNCHANGED <<recvq, se>>
       ELSE /\ spc' = [spc EXCEPT ![p] = "evict"]
            /\ UNCHANGED <<entries, recvq, se, recs, sret>>
    /\ UNCHANGED <<overflow, arrays, drained, scall, sov, sn, out>>
    /\ UNCHANGED <<sw, sa, scopeVars, rateVars, auxVars>>

\* Element i (counted from 1) is an element of the array the pointer names.
InArray(a, i) == a # 0 /\ i <= Len(arrays[a])

\* The elements of a slice, as its three words name them; zero where the
\* words name no element of an array.
Elems(h) ==
    [i \in 1..h.len |-> IF InArray(h.ptr, i) THEN arrays[h.ptr][i] ELSE NoEntry]

\* The values a word of memory that is no array's can be read as.
WordValues(w) ==
    CASE w = "handler" -> {NilHandler, 0, 1}
      [] w = "ctx" -> {0} \cup Scopes
      [] w = "id" -> 0..Len(recs)
      [] w = "level" -> Levels

\* What the load of word w of element i gives through a pointer to array a.
\* The accesses to the elements are not synchronised and have no bounds
\* check of their own (the index was checked against the length loaded): the
\* load through the nil pointer faults; the load of an array's element gives
\* what the word holds at that moment; the load past the array's end gives
\* what the memory behind the array holds, or faults where none is mapped.
Loads(a, i, w) ==
    IF a = 0 THEN {[fault |-> TRUE, word |-> 0]}
    ELSE IF i <= Len(arrays[a]) THEN {[fault |-> FALSE, word |-> arrays[a][i][w]]}
    ELSE {[fault |-> TRUE, word |-> 0]}
            \cup {[fault |-> FALSE, word |-> v] : v \in WordValues(w)}

\* What the store of v into word w of element i leaves in the arrays through
\* a pointer to array a: the store through the nil pointer faults; past the
\* array's end it faults, or lands in the memory behind the array, which is
\* an element of another array or memory that holds none.
Stores(a, i, w, v) ==
    IF a = 0 THEN {[fault |-> TRUE, arrays |-> arrays]}
    ELSE IF i <= Len(arrays[a])
    THEN {[fault |-> FALSE, arrays |-> [arrays EXCEPT ![a][i][w] = v]]}
    ELSE {[fault |-> TRUE, arrays |-> arrays], [fault |-> FALSE, arrays |-> arrays]}
            \cup UNION {{[fault |-> FALSE, arrays |-> [arrays EXCEPT ![b][j][w] = v]] :
                            j \in 1..Len(arrays[b])} : b \in ArrIds \ {0, a}}

\* A caller whose copy has done word w goes on with these words of the
\* element done; none, when that was the element's last.
WordsDone(done, w) == IF done \cup {w} = EntryWords THEN {} ELSE done \cup {w}

\* An array of the given capacity that starts with the given elements; the
\* other elements are zero.
Pad(elems, capacity) ==
    [i \in 1..capacity |-> IF i <= Len(elems) THEN elems[i] ELSE NoEntry]

\* unsafe.Sizeof(entry{}): two interfaces and a slog.Record.
EntrySize == 320

\* The allocator's size classes from 320 bytes on, the header it puts before
\* an object with pointers of more than 512 bytes, and its page.
SizeClasses ==
    {320, 352, 384, 416, 448, 480, 512, 576, 640, 704, 768, 896, 1024, 1152,
     1280, 1408, 1536, 1792, 2048, 2304, 2688, 3072, 3200, 3456, 4096, 4864,
     5376, 6144, 6528, 6784, 6912, 8192, 9472, 9728, 10240, 10880, 12288,
     13568, 14336, 16384, 18432, 19072, 20480, 21760, 24576, 27264, 28672, 32768}
MallocHeaderSize == 8
MinSizeForMallocHeader == 512
MaxSmallSize == 32768
PageSize == 8192

SizeClass(size) == CHOOSE c \in SizeClasses : c >= size /\ \A d \in SizeClasses : d >= size => c <= d

\* runtime.roundupsize(size, noscan = false): the bytes an allocation of size
\* bytes can use.
RoundUpSize(size) ==
    IF size > MaxSmallSize - MallocHeaderSize
    THEN ((size + PageSize - 1) \div PageSize) * PageSize
    ELSE IF size > MinSizeForMallocHeader
    THEN SizeClass(size + MallocHeaderSize) - MallocHeaderSize
    ELSE SizeClass(size)

\* runtime.growslice: the capacity of the array allocated for newLen entries
\* when the old array has oldCap (below 256): newLen when that is more than
\* twice oldCap and twice oldCap otherwise, rounded up to what the
\* allocation's size class holds.
NextCap(oldCap, newLen) ==
    RoundUpSize((IF newLen > 2 * oldCap THEN newLen ELSE 2 * oldCap) * EntrySize)
        \div EntrySize

\* The arrays not allocated yet, and the next one allocated.
FreeArrs == {a \in ArrIds : a # 0 /\ arrays[a] = <<>>}
NewArr == CHOOSE a \in FreeArrs : \A c \in FreeArrs : a <= c

\* buffer.buffer, line 146: if len(b.overflow) == cap(b.overflow), which
\* loads the length and the capacity.
SEvictCheck(p) ==
    /\ spc[p] = "evict"
    /\ \E w \in ToLoad(sov[p], {"len", "cap"}) :
        IF ToLoad(LoadWord(sov[p], BufOf(p), w), {"len", "cap"}) = {}
        THEN /\ spc' = [spc EXCEPT ![p] =
                          IF LoadWord(sov[p], BufOf(p), w).len
                                = LoadWord(sov[p], BufOf(p), w).cap
                          THEN "grow_r" ELSE "app"]
             /\ sov' = [sov EXCEPT ![p] = NotLoaded]
        ELSE /\ sov' = [sov EXCEPT ![p] = LoadWord(@, BufOf(p), w)]
             /\ UNCHANGED spc
    /\ UNCHANGED <<entries, recvq, overflow, arrays, drained, scall, sn, se,
                   recs, out, sret>>
    /\ UNCHANGED <<sw, sa, scopeVars, rateVars, auxVars>>

\* line 147, the arguments of slices.Grow(b.overflow, len(b.entries)): first
\* the three words of the slice,
SGrowRead(p) ==
    /\ spc[p] = "grow_r"
    /\ \E w \in ToLoad(sov[p], Words) :
        /\ sov' = [sov EXCEPT ![p] = LoadWord(@, BufOf(p), w)]
        /\ spc' = [spc EXCEPT ![p] =
                      IF ToLoad(LoadWord(sov[p], BufOf(p), w), Words) = {}
                      THEN "grow_n" ELSE "grow_r"]
    /\ UNCHANGED <<entries, recvq, overflow, arrays, drained, scall, sn, se,
                   recs, out, sret>>
    /\ UNCHANGED <<sw, sa, scopeVars, rateVars, auxVars>>

\* then the number of entries in the channel.
SGrowLen(p) ==
    /\ spc[p] = "grow_n"
    /\ sn' = [sn EXCEPT ![p] = Len(entries[BufOf(p)])]
    /\ spc' = [spc EXCEPT ![p] = "grow_c"]
    /\ UNCHANGED <<entries, recvq, overflow, arrays, drained, scall, sov, se,
                   recs, out, sret>>
    /\ UNCHANGED <<sw, sa, scopeVars, rateVars, auxVars>>

\* runtime.growslice's memmove, one word at a time: the caller copies count
\* elements from the array of its local slice into the array it allocated,
\* which no other caller knows yet.  With the last word it has the slice
\* growslice returns, of length newLen, and goes on at next.
CopyWord(p, count, newLen, next) ==
    \E w \in EntryWords \ sw[p] :
        \E o \in Loads(sov[p].ptr, sn[p] + 1, w) :
            IF o.fault
            THEN /\ spc' = [spc EXCEPT ![p] = "panic"]
                 /\ sov' = [sov EXCEPT ![p] = NotLoaded]
                 /\ sn' = [sn EXCEPT ![p] = 0]
                 /\ sw' = [sw EXCEPT ![p] = {}]
                 /\ sa' = [sa EXCEPT ![p] = 0]
                 /\ UNCHANGED arrays
            ELSE /\ arrays' = [arrays EXCEPT ![sa[p]][sn[p] + 1][w] = o.word]
                 /\ sw' = [sw EXCEPT ![p] = WordsDone(@, w)]
                 /\ IF WordsDone(sw[p], w) # {}
                    THEN UNCHANGED <<spc, sov, sn, sa>>
                    ELSE IF sn[p] + 1 < count
                    THEN /\ sn' = [sn EXCEPT ![p] = @ + 1]
                         /\ UNCHANGED <<spc, sov, sa>>
                    ELSE /\ sov' = [sov EXCEPT ![p] =
                                      [ptr |-> sa[p], len |-> newLen,
                                       cap |-> Len(arrays[sa[p]])]]
                         /\ sn' = [sn EXCEPT ![p] = 0]
                         /\ sa' = [sa EXCEPT ![p] = 0]
                         /\ spc' = [spc EXCEPT ![p] = next]

\* slices.Grow(s, n): if n -= cap(s) - len(s); n > 0 { s = append(s[:cap(s)],
\* make([]S, n)...)[:len(s)] }; return s.  growslice allocates the new array,
\* zeroed, and copies the cap(s) elements of the old one into it.
SGrow(p) ==
    /\ spc[p] \in {"grow_c", "grow_m"}
    /\ IF spc[p] = "grow_m"
       THEN CopyWord(p, sov[p].cap, sov[p].len, "gw_len")
       ELSE IF sn[p] - (sov[p].cap - sov[p].len) <= 0
       THEN /\ spc' = [spc EXCEPT ![p] = "gw_len"]
            /\ sn' = [sn EXCEPT ![p] = 0]
            /\ UNCHANGED <<arrays, sov, sw, sa>>
       ELSE /\ FreeArrs # {}
            /\ arrays' = [arrays EXCEPT ![NewArr] =
                            Pad(<<>>, NextCap(sov[p].cap, sov[p].len + sn[p]))]
            /\ sn' = [sn EXCEPT ![p] = 0]
            /\ IF sov[p].cap = 0
               THEN /\ sov' = [sov EXCEPT ![p] =
                                 [ptr |-> NewArr, len |-> sov[p].len,
                                  cap |-> NextCap(sov[p].cap, sov[p].len + sn[p])]]
                    /\ spc' = [spc EXCEPT ![p] = "gw_len"]
                    /\ UNCHANGED sa
               ELSE /\ sa' = [sa EXCEPT ![p] = NewArr]
                    /\ spc' = [spc EXCEPT ![p] = "grow_m"]
                    /\ UNCHANGED sov
            /\ UNCHANGED sw
    /\ UNCHANGED <<entries, recvq, overflow, drained, scall, se, recs, out, sret>>
    /\ UNCHANGED <<scopeVars, rateVars, auxVars>>

\* line 147, the assignment b.overflow = (what Grow returned): the compiler
\* stores the length, then the capacity, then the pointer.
SGrowStore(p) ==
    /\ spc[p] \in {"gw_len", "gw_cap", "gw_ptr"}
    /\ overflow' = [overflow EXCEPT ![BufOf(p)] =
                      CASE spc[p] = "gw_len" -> [@ EXCEPT !.len = sov[p].len]
                        [] spc[p] = "gw_cap" -> [@ EXCEPT !.cap = sov[p].cap]
                        [] spc[p] = "gw_ptr" -> [@ EXCEPT !.ptr = sov[p].ptr]]
    /\ spc' = [spc EXCEPT ![p] =
                  CASE spc[p] = "gw_len" -> "gw_cap"
                    [] spc[p] = "gw_cap" -> "gw_ptr"
                    [] spc[p] = "gw_ptr" -> "app"]
    /\ sov' = [sov EXCEPT ![p] = IF spc[p] = "gw_ptr" THEN NotLoaded ELSE @]
    /\ UNCHANGED <<entries, recvq, arrays, drained, scall, sn, se, recs, out, sret>>
    /\ UNCHANGED <<sw, sa, scopeVars, rateVars, auxVars>>

\* line 149: b.overflow = append(b.overflow, <-b.entries).  Go leaves open
\* which words of b.overflow are loaded before the receive and which after.
SEvictRead(p) ==
    /\ spc[p] \in {"app", "app_e"}
    /\ \E w \in ToLoad(sov[p], Words) :
        /\ sov' = [sov EXCEPT ![p] = LoadWord(@, BufOf(p), w)]
        /\ spc' = [spc EXCEPT ![p] =
                      IF spc[p] = "app_e"
                      THEN AfterRecv(LoadWord(sov[p], BufOf(p), w)) ELSE "app"]
    /\ UNCHANGED <<entries, recvq, overflow, arrays, drained, scall, sn, se,
                   recs, out, sret>>
    /\ UNCHANGED <<sw, sa, scopeVars, rateVars, auxVars>>

\* <-b.entries: takes the oldest entry, and parks the caller while the
\* channel is empty.
SEvictRecv(p) ==
    /\ spc[p] = "app"
    /\ IF entries[BufOf(p)] # <<>>
       THEN /\ se' = [se EXCEPT ![p] = Head(entries[BufOf(p)])]
            /\ entries' = [entries EXCEPT ![BufOf(p)] = Tail(@)]
            /\ spc' = [spc EXCEPT ![p] = AfterRecv(sov[p])]
            /\ UNCHANGED recvq
       ELSE /\ recvq' = [recvq EXCEPT ![BufOf(p)] = Append(@, p)]
            /\ spc' = [spc EXCEPT ![p] = "parked"]
            /\ UNCHANGED <<se, entries>>
    /\ UNCHANGED <<overflow, arrays, drained, scall, sov, sn, recs, out, sret>>
    /\ UNCHANGED <<sw, sa, scopeVars, rateVars, auxVars>>

EvictDropsOldest(ov, e) == ov

EvictPrepends(ov, e) == <<e>> \o ov

\* append(s, e): the elements of the slice it returns.
EvictTo(ov, e) == Append(ov, e)

\* append(s, e) on the words loaded: with len(s)+1 > cap(s), runtime.growslice
\* allocates an array, zeroed, and copies the len(s) elements of s into it;
\* otherwise the array of s is used.
SEvictAppend(p) ==
    /\ spc[p] \in {"append", "app_m"}
    /\ IF spc[p] = "app_m"
       THEN CopyWord(p, sov[p].len, sov[p].len + 1, "st_cap")
       ELSE IF sov[p].len + 1 <= sov[p].cap
       THEN /\ sov' = [sov EXCEPT ![p].len = @ + 1]
            /\ spc' = [spc EXCEPT ![p] = "st_len"]
            /\ UNCHANGED <<arrays, sn, sw, sa>>
       ELSE /\ FreeArrs # {}
            /\ arrays' = [arrays EXCEPT ![NewArr] =
                            Pad(<<>>, NextCap(sov[p].cap, sov[p].len + 1))]
            /\ IF sov[p].len = 0
               THEN /\ sov' = [sov EXCEPT ![p] =
                                 [ptr |-> NewArr, len |-> 1,
                                  cap |-> NextCap(sov[p].cap, sov[p].len + 1)]]
                    /\ spc' = [spc EXCEPT ![p] = "st_cap"]
                    /\ UNCHANGED sa
               ELSE /\ sa' = [sa EXCEPT ![p] = NewArr]
                    /\ spc' = [spc EXCEPT ![p] = "app_m"]
                    /\ UNCHANGED sov
            /\ UNCHANGED <<sn, sw>>
    /\ UNCHANGED <<entries, recvq, overflow, drained, scall, se, recs, out, sret>>
    /\ UNCHANGED <<scopeVars, rateVars, auxVars>>

\* line 149, the assignment b.overflow = (what append returned): after
\* growslice the compiler stores the capacity and the pointer; in both cases
\* it then stores the length.  Without growslice the length is the only word
\* stored.
SEvictStore(p) ==
    /\ spc[p] \in {"st_cap", "st_ptr", "st_len"}
    /\ overflow' = [overflow EXCEPT ![BufOf(p)] =
                      CASE spc[p] = "st_cap" -> [@ EXCEPT !.cap = sov[p].cap]
                        [] spc[p] = "st_ptr" -> [@ EXCEPT !.ptr = sov[p].ptr]
                        [] spc[p] = "st_len" -> [@ EXCEPT !.len = sov[p].len]]
    /\ spc' = [spc EXCEPT ![p] =
                  CASE spc[p] = "st_cap" -> "st_ptr"
                    [] spc[p] = "st_ptr" -> "st_len"
                    [] spc[p] = "st_len" -> "st_elem"]
    /\ UNCHANGED <<entries, recvq, arrays, drained, scall, sov, sn, se, recs, out, sret>>
    /\ UNCHANGED <<sw, sa, scopeVars, rateVars, auxVars>>

\* Word w of the elements of an array once append(s, e) has stored that word
\* of e behind the n - 1 elements of s.
AppendedWord(arr, n, e, w) ==
    [i \in 1..Len(arr) |->
        IF i <= n /\ i <= Len(EvictTo(SubSeq(arr, 1, n - 1), e))
        THEN [arr[i] EXCEPT ![w] = EvictTo(SubSeq(arr, 1, n - 1), e)[i][w]]
        ELSE arr[i]]

\* line 149, last: the entry is written into the array at the index of the
\* length loaded, one word at a time.
SEvictElem(p) ==
    /\ spc[p] = "st_elem"
    /\ \E w \in EntryWords \ sw[p] :
        \E o \in IF InArray(sov[p].ptr, sov[p].len)
                 THEN {[fault |-> FALSE,
                        arrays |-> [arrays EXCEPT ![sov[p].ptr] =
                                      AppendedWord(@, sov[p].len, se[p], w)]]}
                 ELSE Stores(sov[p].ptr, sov[p].len, w, se[p][w]) :
            /\ arrays' = o.arrays
            /\ IF o.fault
               THEN /\ spc' = [spc EXCEPT ![p] = "panic"]
                    /\ sw' = [sw EXCEPT ![p] = {}]
                    /\ sov' = [sov EXCEPT ![p] = NotLoaded]
                    /\ se' = [se EXCEPT ![p] = NoEntry]
               ELSE /\ sw' = [sw EXCEPT ![p] = WordsDone(@, w)]
                    /\ IF WordsDone(sw[p], w) # {}
                       THEN UNCHANGED <<spc, sov, se>>
                       ELSE /\ spc' = [spc EXCEPT ![p] = "send"]
                            /\ sov' = [sov EXCEPT ![p] = NotLoaded]
                            /\ se' = [se EXCEPT ![p] = NoEntry]
    /\ UNCHANGED <<entries, recvq, overflow, drained, scall, sn, sa, recs, out, sret>>
    /\ UNCHANGED <<scopeVars, rateVars, auxVars>>

NeverDrained(b) == FALSE

\* What b.drained.Swap(true) returns.
AlreadyDrained(b) == drained[b]

\* buffer.drain: if drained := b.drained.Swap(true); drained { return }
SDrainSwap(p) ==
    /\ spc[p] = "drain"
    /\ drained' = [drained EXCEPT ![BufOf(p)] = TRUE]
    /\ IF AlreadyDrained(BufOf(p))
       THEN /\ spc' = [spc EXCEPT ![p] = "forward"]
            /\ UNCHANGED recs
       ELSE /\ spc' = [spc EXCEPT ![p] = "range"]
            /\ recs' = [recs EXCEPT ![scall[p]].flipped = TRUE]
    /\ UNCHANGED <<entries, recvq, overflow, arrays, scall, sov, sn, se, out, sret>>
    /\ UNCHANGED <<sw, sa, scopeVars, rateVars, auxVars>>

\* for _, e := range b.overflow: the pointer and the length of the slice are
\* loaded once, before the loop.
SDrainRange(p) ==
    /\ spc[p] = "range"
    /\ \E w \in ToLoad(sov[p], {"ptr", "len"}) :
        /\ sov' = [sov EXCEPT ![p] = LoadWord(@, BufOf(p), w)]
        /\ spc' = [spc EXCEPT ![p] =
                      IF ToLoad(LoadWord(sov[p], BufOf(p), w), {"ptr", "len"}) = {}
                      THEN "flush" ELSE "range"]
    /\ sn' = [sn EXCEPT ![p] = 0]
    /\ UNCHANGED <<entries, recvq, overflow, arrays, drained, scall, se, recs,
                   out, sret>>
    /\ UNCHANGED <<sw, sa, scopeVars, rateVars, auxVars>>

\* The range loop ends, or copies the next element out of the array, one
\* word at a time.
SDrainElem(p) ==
    /\ spc[p] = "flush"
    /\ IF sn[p] >= sov[p].len
       THEN /\ sov' = [sov EXCEPT ![p] = NotLoaded]
            /\ sn' = [sn EXCEPT ![p] = 0]
            /\ spc' = [spc EXCEPT ![p] = "clear"]
            /\ UNCHANGED <<se, sw>>
       ELSE \E w \in EntryWords \ sw[p] :
            \E o \in Loads(sov[p].ptr, sn[p] + 1, w) :
                IF o.fault
                THEN /\ sov' = [sov EXCEPT ![p] = NotLoaded]
                     /\ sn' = [sn EXCEPT ![p] = 0]
                     /\ sw' = [sw EXCEPT ![p] = {}]
                     /\ se' = [se EXCEPT ![p] = NoEntry]
                     /\ spc' = [spc EXCEPT ![p] = "panic"]
                ELSE /\ se' = [se EXCEPT ![p][w] = o.word]
                     /\ sw' = [sw EXCEPT ![p] = WordsDone(@, w)]
                     /\ IF WordsDone(sw[p], w) # {}
                        THEN UNCHANGED <<sn, spc>>
                        ELSE /\ sn' = [sn EXCEPT ![p] = @ + 1]
                             /\ spc' = [spc EXCEPT ![p] = "flush_h"]
                     /\ UNCHANGED sov
    /\ UNCHANGED <<entries, recvq, overflow, arrays, drained, scall, sa, recs, out, sret>>
    /\ UNCHANGED <<scopeVars, rateVars, auxVars>>

DrainStopsOnError(r) == r = "nil"

DrainTargetTrigger(e, p) ==
    [e EXCEPT !.handler = EntryOf(p).handler, !.ctx = EntryOf(p).ctx]

\* e.handler.Handle(e.ctx, e.record): the handler and the context are the
\* entry's, stored when it was appended.
DrainTarget(e, p) == e

\* _ = e.handler.Handle(e.ctx, e.record): drain goes on whatever the
\* entry's handler returned.
DrainGoesOn(r) == TRUE

\* _ = e.handler.Handle(e.ctx, e.record) with the entry the loop took: the
\* method call panics on a nil handler, as that of a zero entry; any other
\* handler is called with the context and the record the entry holds.
DrainHandle(p, R, again) ==
    /\ IF se[p].handler = NilHandler
       THEN /\ spc' = [spc EXCEPT ![p] = "panic"]
            /\ sov' = [sov EXCEPT ![p] = NotLoaded]
            /\ sn' = [sn EXCEPT ![p] = 0]
            /\ UNCHANGED out
       ELSE /\ \E r \in R :
                /\ Emit(DrainTarget(se[p], p), "drain", p, r)
                /\ spc' = [spc EXCEPT ![p] = IF DrainGoesOn(r) THEN again ELSE "forward"]
            /\ UNCHANGED <<sov, sn>>
    /\ se' = [se EXCEPT ![p] = NoEntry]
    /\ UNCHANGED <<entries, recvq, overflow, arrays, drained, scall, recs, sret>>
    /\ UNCHANGED <<sw, sa, scopeVars, rateVars, auxVars>>

\* The body of the range loop, line 161.
SDrainOverflow(p, R) ==
    /\ spc[p] = "flush_h"
    /\ DrainHandle(p, R, "flush")

\* line 163: clear(b.overflow), which loads the pointer and the length
SDrainClearRead(p) ==
    /\ spc[p] = "clear"
    /\ \E w \in ToLoad(sov[p], {"ptr", "len"}) :
        /\ sov' = [sov EXCEPT ![p] = LoadWord(@, BufOf(p), w)]
        /\ spc' = [spc EXCEPT ![p] =
                      IF ToLoad(LoadWord(sov[p], BufOf(p), w), {"ptr", "len"}) = {}
                      THEN "clear_w" ELSE "clear"]
    /\ UNCHANGED <<entries, recvq, overflow, arrays, drained, scall, sn, se, recs,
                   out, sret>>
    /\ UNCHANGED <<sw, sa, scopeVars, rateVars, auxVars>>

\* and zeroes the len(s) elements of the slice in its array, one word at a
\* time.
SDrainClear(p) ==
    /\ spc[p] = "clear_w"
    /\ IF sn[p] >= sov[p].len
       THEN /\ spc' = [spc EXCEPT ![p] = "trunc"]
            /\ sov' = [sov EXCEPT ![p] = NotLoaded]
            /\ sn' = [sn EXCEPT ![p] = 0]
            /\ UNCHANGED <<arrays, sw>>
       ELSE \E w \in EntryWords \ sw[p] :
            \E o \in Stores(sov[p].ptr, sn[p] + 1, w, NoEntry[w]) :
                /\ arrays' = o.arrays
                /\ IF o.fault
                   THEN /\ spc' = [spc EXCEPT ![p] = "panic"]
                        /\ sov' = [sov EXCEPT ![p] = NotLoaded]
                        /\ sn' = [sn EXCEPT ![p] = 0]
                        /\ sw' = [sw EXCEPT ![p] = {}]
                   ELSE /\ sw' = [sw EXCEPT ![p] = WordsDone(@, w)]
                        /\ sn' = [sn EXCEPT ![p] =
                                    IF WordsDone(sw[p], w) = {} THEN @ + 1 ELSE @]
                        /\ UNCHANGED <<spc, sov>>
    /\ UNCHANGED <<entries, recvq, overflow, drained, scall, se, sa, recs, out, sret>>
    /\ UNCHANGED <<scopeVars, rateVars, auxVars>>

\* line 164: b.overflow = b.overflow[:0].  The slice is assigned a slice of
\* itself from index 0 on: the compiler stores the length and leaves the
\* pointer and the capacity alone.
SDrainTrunc(p) ==
    /\ spc[p] = "trunc"
    /\ overflow' = [overflow EXCEPT ![BufOf(p)].len = 0]
    /\ spc' = [spc EXCEPT ![p] = "flushq"]
    /\ UNCHANGED <<entries, recvq, arrays, drained, scall, sov, sn, se, recs, out, sret>>
    /\ UNCHANGED <<sw, sa, scopeVars, rateVars, auxVars>>

\* select { case e := <-b.entries: ...; default: return }: the receive that
\* does not block.
SDrainRecv(p) ==
    /\ spc[p] = "flushq"
    /\ IF entries[BufOf(p)] # <<>>
       THEN /\ se' = [se EXCEPT ![p] = Head(entries[BufOf(p)])]
            /\ entries' = [entries EXCEPT ![BufOf(p)] = Tail(@)]
            /\ spc' = [spc EXCEPT ![p] = "flushq_h"]
       ELSE /\ spc' = [spc EXCEPT ![p] = "forward"]
            /\ UNCHANGED <<entries, se>>
    /\ UNCHANGED <<recvq, overflow, arrays, drained, scall, sov, sn, recs, out, sret>>
    /\ UNCHANGED <<sw, sa, scopeVars, rateVars, auxVars>>

\* The body of that case, line 170.
SDrainQueue(p, R) ==
    /\ spc[p] = "flushq_h"
    /\ DrainHandle(p, R, "flushq")

\* buffer.buffer of the handler with WithBufferSize: for { select { case
\* b.entries <- entry{...}: return nil; default: <-b.entries } }.  The send
\* succeeds when a caller is parked in a receive, which then gets the entry,
\* or when the channel has room.
VSend(p) ==
    /\ spc[p] = "send"
    /\ IF recvq[BufOf(p)] # <<>>
       THEN /\ recvq' = [recvq EXCEPT ![BufOf(p)] = Tail(@)]
            /\ spc' = [spc EXCEPT ![p] = "idle", ![Head(recvq[BufOf(p)])] = "send"]
            /\ sret' = [sret EXCEPT ![p] = SentResult]
            /\ recs' = [recs EXCEPT ![scall[p]].done = TRUE]
            /\ UNCHANGED entries
       ELSE IF Len(entries[BufOf(p)]) < bufferSize
       THEN /\ entries' = [entries EXCEPT ![BufOf(p)] = Append(@, EntryOf(p))]
            /\ recs' = [recs EXCEPT ![scall[p]].done = TRUE,
                                    ![scall[p]].deferred = TRUE]
            /\ SReturn(p, SentResult)
            /\ UNCHANGED recvq
       ELSE /\ spc' = [spc EXCEPT ![p] = "recv"]
            /\ UNCHANGED <<entries, recvq, recs, sret>>
    /\ UNCHANGED <<overflow, arrays, drained, scall, sov, sn, se, out>>
    /\ UNCHANGED <<sw, sa, scopeVars, rateVars, auxVars>>

\* default: <-b.entries, which drops the oldest entry, and parks the caller
\* while the channel is empty.
VRecv(p) ==
    /\ spc[p] = "recv"
    /\ IF entries[BufOf(p)] # <<>>
       THEN /\ entries' = [entries EXCEPT ![BufOf(p)] = Tail(@)]
            /\ spc' = [spc EXCEPT ![p] = "send"]
            /\ UNCHANGED recvq
       ELSE /\ recvq' = [recvq EXCEPT ![BufOf(p)] = Append(@, p)]
            /\ spc' = [spc EXCEPT ![p] = "parked"]
            /\ UNCHANGED entries
    /\ UNCHANGED <<overflow, arrays, drained, scall, sov, sn, se, recs, out, sret>>
    /\ UNCHANGED <<sw, sa, scopeVars, rateVars, auxVars>>

\* buffer.drain of that handler: if drained := b.drained.Swap(true); drained
\* { return }, then the loop over b.entries.
VDrainSwap(p) ==
    /\ spc[p] = "drain"
    /\ drained' = [drained EXCEPT ![BufOf(p)] = TRUE]
    /\ IF AlreadyDrained(BufOf(p))
       THEN /\ spc' = [spc EXCEPT ![p] = "forward"]
            /\ UNCHANGED recs
       ELSE /\ spc' = [spc EXCEPT ![p] = "flushq"]
            /\ recs' = [recs EXCEPT ![scall[p]].flipped = TRUE]
    /\ UNCHANGED <<entries, recvq, overflow, arrays, scall, sov, sn, se, out, sret>>
    /\ UNCHANGED <<sw, sa, scopeVars, rateVars, auxVars>>

\* bufferPool.Get(): a buffer of the pool, or a new one from bufferPool.New.
\* ctx = context.WithValue(ctx, contextKey{}, buf)
PoolGetKeeps(n) == n

\* bufferPool.Get() takes the buffer out of the pool.
PoolGet(n) == n - 1

WithBuffer(s) ==
    /\ ctxBuf[s] = 0
    /\ \A t \in Scopes : t < s => ctxBuf[t] # 0
    /\ \E b \in BufIds :
        /\ IF b \in made THEN pool[b] > 0 ELSE \A a \in BufIds : a < b => a \in made
        /\ pool' = IF b \in made THEN [pool EXCEPT ![b] = PoolGet(@)] ELSE pool
        /\ made' = made \cup {b}
        /\ ctxBuf' = [ctxBuf EXCEPT ![s] = b]
    /\ UNCHANGED <<level, released, relpc, rov, rn, rw>>
    /\ UNCHANGED <<entries, recvq, overflow, arrays, drained, callVars>>
    /\ UNCHANGED <<rateVars, auxVars>>

ResetDiscardsNever(wasDrained) == FALSE

\* buffer.reset: if drained := b.drained.Swap(false); !drained { the loop that
\* discards }
ResetDiscards(wasDrained) == ~wasDrained

\* The release function WithBuffer returned, buf.reset, called by the owner of
\* the scope; the context keeps its pointer to the buffer.  Line 178:
\* b.drained.Swap(false).
Release(s, maxReleases) ==
    /\ ctxBuf[s] # 0
    /\ relpc[s] = "idle"
    /\ released[s] < maxReleases
    /\ released' = [released EXCEPT ![s] = @ + 1]
    /\ drained' = [drained EXCEPT ![ctxBuf[s]] = FALSE]
    /\ relpc' = [relpc EXCEPT ![s] =
                    IF ResetDiscards(drained[ctxBuf[s]]) THEN "discard" ELSE "clear"]
    /\ UNCHANGED <<level, made, pool, ctxBuf, rov, rn, rw>>
    /\ UNCHANGED <<entries, recvq, overflow, arrays, callVars>>
    /\ UNCHANGED <<rateVars, auxVars>>

\* The loop of a reset: select { case <-b.entries: default: (leave the loop) }
Discard(s, after) ==
    /\ relpc[s] = "discard"
    /\ IF entries[ctxBuf[s]] # <<>>
       THEN /\ entries' = [entries EXCEPT ![ctxBuf[s]] = Tail(@)]
            /\ UNCHANGED relpc
       ELSE /\ relpc' = [relpc EXCEPT ![s] = after]
            /\ UNCHANGED entries
    /\ UNCHANGED <<level, made, pool, ctxBuf, released, rov, rn, rw>>
    /\ UNCHANGED <<recvq, overflow, arrays, drained, callVars>>
    /\ UNCHANGED <<rateVars, auxVars>>

\* lines 181-187
RelDiscard(s) == Discard(s, "clear")

\* line 189: clear(b.overflow), which loads the pointer and the length
RelClearRead(s) ==
    /\ relpc[s] = "clear"
    /\ \E w \in ToLoad(rov[s], {"ptr", "len"}) :
        /\ rov' = [rov EXCEPT ![s] = LoadWord(@, ctxBuf[s], w)]
        /\ relpc' = [relpc EXCEPT ![s] =
                      IF ToLoad(LoadWord(rov[s], ctxBuf[s], w), {"ptr", "len"}) = {}
                      THEN "clear_w" ELSE "clear"]
    /\ UNCHANGED <<level, made, pool, ctxBuf, released, rn, rw>>
    /\ UNCHANGED <<entries, recvq, overflow, arrays, drained, callVars>>
    /\ UNCHANGED <<rateVars, auxVars>>

\* and zeroes the elements, one word at a time.
RelClear(s) ==
    /\ relpc[s] = "clear_w"
    /\ IF rn[s] >= rov[s].len
       THEN /\ relpc' = [relpc EXCEPT ![s] = "trunc"]
            /\ rov' = [rov EXCEPT ![s] = NotLoaded]
            /\ rn' = [rn EXCEPT ![s] = 0]
            /\ UNCHANGED <<arrays, rw>>
       ELSE \E w \in EntryWords \ rw[s] :
            \E o \in Stores(rov[s].ptr, rn[s] + 1, w, NoEntry[w]) :
                /\ arrays' = o.arrays
                /\ IF o.fault
                   THEN /\ relpc' = [relpc EXCEPT ![s] = "panic"]
                        /\ rov' = [rov EXCEPT ![s] = NotLoaded]
                        /\ rn' = [rn EXCEPT ![s] = 0]
                        /\ rw' = [rw EXCEPT ![s] = {}]
                   ELSE /\ rw' = [rw EXCEPT ![s] = WordsDone(@, w)]
                        /\ rn' = [rn EXCEPT ![s] =
                                    IF WordsDone(rw[s], w) = {} THEN @ + 1 ELSE @]
                        /\ UNCHANGED <<relpc, rov>>
    /\ UNCHANGED <<level, made, pool, ctxBuf, released>>
    /\ UNCHANGED <<entries, recvq, overflow, drained, callVars>>
    /\ UNCHANGED <<rateVars, auxVars>>

\* line 190: b.overflow = b.overflow[:0], which stores the length.
RelTrunc(s) ==
    /\ relpc[s] = "trunc"
    /\ overflow' = [overflow EXCEPT ![ctxBuf[s]].len = 0]
    /\ relpc' = [relpc EXCEPT ![s] = "put"]
    /\ UNCHANGED <<level, made, pool, ctxBuf, released, rov, rn, rw>>
    /\ UNCHANGED <<entries, recvq, arrays, drained, callVars>>
    /\ UNCHANGED <<rateVars, auxVars>>

\* line 192: bufferPool.Put(b)
RelPut(s) ==
    /\ relpc[s] = "put"
    /\ pool' = [pool EXCEPT ![ctxBuf[s]] = @ + 1]
    /\ relpc' = [relpc EXCEPT ![s] = "idle"]
    /\ UNCHANGED <<level, made, ctxBuf, released, rov, rn, rw>>
    /\ UNCHANGED <<entries, recvq, overflow, arrays, drained, callVars>>
    /\ UNCHANGED <<rateVars, auxVars>>

\* The release function of the handler with WithBufferSize: buf.reset(), which
\* is if drained := b.drained.Swap(false); drained { return } and the loop
\* that discards, then h.bufferPool.Put(buf).
VRelease(s, maxReleases) ==
    /\ ctxBuf[s] # 0
    /\ relpc[s] = "idle"
    /\ released[s] < maxReleases
    /\ released' = [released EXCEPT ![s] = @ + 1]
    /\ drained' = [drained EXCEPT ![ctxBuf[s]] = FALSE]
    /\ relpc' = [relpc EXCEPT ![s] =
                    IF ResetDiscards(drained[ctxBuf[s]]) THEN "discard" ELSE "put"]
    /\ UNCHANGED <<level, made, pool, ctxBuf, rov, rn, rw>>
    /\ UNCHANGED <<entries, recvq, overflow, arrays, callVars>>
    /\ UNCHANGED <<rateVars, auxVars>>

VRelDiscard(s) == Discard(s, "put")

EnabledAboveOnly(ds, bound, sampled, l) ==
    IF ~ds THEN FALSE
    ELSE IF ~bound /\ ~sampled THEN l > level
    ELSE TRUE

\* Handler.Enabled: false when h.handler.Enabled is; level >= h.level when the
\* context has no buffer and the sampler says no; true otherwise.
Enabled(ds, bound, sampled, l) ==
    IF ~ds THEN FALSE
    ELSE IF ~bound /\ ~sampled THEN l >= level
    ELSE TRUE

\* One call of Handler.Enabled(ctx, level), with what h.handler.Enabled and
\* h.sampler answer for it.
SEnabled(C, L, S, D, maxAsked) ==
    /\ Len(asked) < maxAsked
    /\ \E c \in C, l \in L, sampled \in S, ds \in D :
        /\ c # 0 => ctxBuf[c] # 0
        /\ asked' = Append(asked, [ctx |-> c, bound |-> c # 0, level |-> l,
                                   sampled |-> sampled, ds |-> ds,
                                   res |-> Enabled(ds, c # 0, sampled, l)])
    /\ UNCHANGED <<rateVars, bufVars, rateNew, sampNew, rateOpts, extVars>>

(***************************************************************************)
(* Specifications of the rate limiter.                                     *)
(***************************************************************************)
\* The value the race test gives to WithEvery.
EveryLarge == 1000

\* One caller, one (level, message): sequential Handle calls.
InitRate ==
    \E f \in 1..MaxFirst, e \in 0..MaxEvery : RateWith(<<f>>, <<e>>, <<Interval>>) /\ BufInit(LevelError) /\ Built

NextRate ==
    \/ HandleStart(1, {LevelInfo}, {MsgMsg}, Times, MaxCalls)
    \/ IncCount(1)
    \/ IncCas(1)
    \/ HandleDecide(1, Results)

SpecRate == InitRate /\ [][NextRate]_vars

\* Several callers, one (level, message): concurrent Handle calls, interleaved
\* at the atomic operations of counter.Inc.
InitRateConc ==
    \E f \in {1, 2}, e \in {0, EveryLarge} : RateWith(<<f>>, <<e>>, <<Interval>>) /\ BufInit(LevelError) /\ Built

\* Each caller makes one call; the callers being alike, they enter Handle in
\* the order of their numbers.
StartsNext(p) == rcall[p] = 0 /\ \A q \in Procs : q < p => rcall[q] # 0

\* Concurrent records carry timestamps inside one interval (Interval >= 2).
ConcTimes == {0, 1}

NextRateConc ==
    \E p \in Procs :
        \/ StartsNext(p) /\ HandleStart(p, {LevelInfo}, {MsgMsg}, ConcTimes, NumProcs)
        \/ IncCount(p)
        \/ IncCas(p)
        \/ IncRaced(p)
        \/ HandleDecide(p, {"nil"})

SpecRateConc == InitRateConc /\ [][NextRateConc]_vars

\* Several callers, one (level, message), every = 0: a caller whose call has
\* returned calls Handle again, so that more records are logged inside one
\* interval than are forwarded.
InitRateRace ==
    \E f \in 1..MaxRaceFirst : RateWith(<<f>>, <<0>>, <<Interval>>) /\ BufInit(LevelError) /\ Built

\* The callers being alike, the next call is made by the idle caller of the
\* lowest number.
CallsNext(p) == rpc[p] = "idle" /\ \A q \in Procs : q < p => rpc[q] # "idle"

\* The records of the callers that call again carry one timestamp.
RaceTimes == {0}

NextRateRace ==
    \E p \in Procs :
        \/ CallsNext(p) /\ HandleStart(p, {LevelInfo}, {MsgMsg}, RaceTimes, MaxRaceCalls)
        \/ IncCount(p)
        \/ IncCas(p)
        \/ IncRaced(p)
        \/ HandleDecide(p, {"nil"})

SpecRateRace == InitRateRace /\ [][NextRateRace]_vars

\* One caller, every level and message, one timestamp: the counter table.
InitCells ==
    \E f \in 1..MaxFirst, e \in 0..MaxEvery : RateWith(<<f>>, <<e>>, <<Interval>>) /\ BufInit(LevelError) /\ Built

NextCells ==
    \/ HandleStart(1, Levels, Msgs, {0}, MaxCellCalls)
    \/ IncCount(1)
    \/ IncCas(1)
    \/ HandleDecide(1, Results)

SpecCells == InitCells /\ [][NextCells]_vars

\* The handlers that exist.
HandlerIds == 1..Len(handlers)

\* One caller logging through the rate handler and through handlers derived
\* from it, at one timestamp.
InitDerived ==
    /\ RateWith(<<1>>, <<0>>, <<Interval>>)
    /\ BufInit(LevelError)
    /\ Built

NextDerived ==
    \/ \E h \in HandlerIds : RWithAttrs(h)
    \/ \E h \in HandlerIds : RWithGroup(h)
    \/ REnabled({LevelInfo}, BOOLEAN, MaxRateAsked)
    \/ HandleOn(1, HandlerIds, {LevelInfo}, Msgs, {0}, MaxDerivedCalls)
    \/ IncCount(1)
    \/ IncCas(1)
    \/ HandleDecide(1, {"nil"})

SpecDerived == InitDerived /\ [][NextDerived]_vars

\* One caller, one level, keys of every length, one timestamp: the hash.
InitHash ==
    \E f \in 1..MaxFirst : RateWith(<<f>>, <<0>>, <<Interval>>) /\ BufInit(LevelError) /\ Built

NextHash ==
    \/ HandleStart(1, {LevelInfo}, Keys, {0}, MaxHashCalls)
    \/ IncCount(1)
    \/ IncCas(1)
    \/ HandleDecide(1, {"nil"})

SpecHash == InitHash /\ [][NextHash]_vars

\* The values the options are given: absent, zero, negative (a
\* time.Duration), positive, and an option given twice.
FirstOpts == {<<>>, <<0>>, <<1>>, <<MaxFirst>>, <<MaxFirst, 0>>}
EveryOpts == {<<>>, <<0>>, <<MaxEvery>>}
IntervalOpts == {<<>>, <<0>>, <<-1>>, <<Interval>>}

\* One caller, one (level, message), a rate limiter built with every
\* combination of options.
InitDefaults ==
    /\ \E wf \in FirstOpts, we \in EveryOpts, wi \in IntervalOpts : RateWith(wf, we, wi)
    /\ BufInit(LevelError)
    /\ Built

NextDefaults ==
    \/ HandleStart(1, {LevelInfo}, {MsgMsg}, Times, MaxDefaultCalls)
    \/ IncCount(1)
    \/ IncCas(1)
    \/ HandleDecide(1, {"nil"})

SpecDefaults == InitDefaults /\ [][NextDefaults]_vars

\* Two callers, one (level, message), each making one call after another:
\* calls that overlap and calls that follow completed calls.
StaleProcs == {1, 2}

InitStale ==
    /\ RateWith(<<1>>, <<0>>, <<Interval>>)
    /\ BufInit(LevelError)
    /\ Built

NextStale ==
    \E p \in StaleProcs :
        \/ HandleStart(p, {LevelInfo}, {MsgMsg}, ConcTimes, MaxStaleCalls)
        \/ IncCount(p)
        \/ IncCas(p)
        \/ IncRaced(p)
        \/ HandleDecide(p, {"nil"})

SpecStale == InitStale /\ [][NextStale]_vars

\* Two callers, one (level, message), timestamps in any order over several
\* windows: concurrent Handle calls interleaved at the atomic operations of
\* counter.Inc.
InitWindows ==
    /\ RateWith(<<1>>, <<0>>, <<Interval>>)
    /\ BufInit(LevelError)
    /\ Built

NextWindows ==
    \E p \in StaleProcs :
        \/ HandleStart(p, {LevelInfo}, {MsgMsg}, Times, MaxWindowCalls)
        \/ IncCount(p)
        \/ IncCas(p)
        \/ IncRaced(p)
        \/ HandleDecide(p, {"nil"})

SpecWindows == InitWindows /\ [][NextWindows]_vars

(***************************************************************************)
(* Vocabulary of the rate limiter's claims.                                *)
(***************************************************************************)
CallIds == 1..Len(calls)
Done(i) == calls[i].out # "pending"
AllIdle == \A p \in Procs : rpc[p] = "idle"

\* Every timestamp lies in the window the first record starts.
OneWindow ==
    \A i \in CallIds :
        calls[1].time <= calls[i].time /\ calls[i].time < calls[1].time + interval

\* The timestamps of concurrent calls lie inside one interval.
OneInterval ==
    \A i, j \in CallIds : calls[i].time - calls[j].time < interval

DeliveredIds == [k \in 1..Len(delivered) |-> delivered[k].call]

\* The calls, in order, that are over and satisfy Keep.
DoneAnd(Keep(_)) ==
    SelectSeq([i \in CallIds |-> i], LAMBDA i : Done(i) /\ Keep(i))

\* C1: with every = E > 0, of k sequential records inside one window on a
\* fresh counter the downstream handler receives exactly those whose ordinal n
\* satisfies n <= F or (n - F) mod E = 0, in order, and no others.
C1_FirstThenEvery ==
    (every > 0 /\ OneWindow) =>
        /\ \A i \in CallIds : Done(i) => calls[i].n = i
        /\ \A i \in CallIds :
            Done(i) => ((calls[i].out = "forwarded")
                            <=> (i <= first \/ (i - first) % every = 0))
        /\ DeliveredIds = DoneAnd(LAMBDA i : i <= first \/ (i - first) % every = 0)

C1_Witness ==
    /\ AllIdle /\ OneWindow /\ every > 1 /\ Len(calls) >= 4
    /\ \E i, j \in CallIds :
        /\ first < i /\ i < j
        /\ calls[i].out = "dropped"
        /\ calls[j].out = "forwarded"

\* C2: P concurrent callers, same (level, message), timestamps inside one
\* interval, fresh counter, first = 1 and every larger than P: exactly one Inc
\* returns ordinal 1 and exactly one record reaches the downstream handler.
C2_ExactlyOneConcurrent ==
    (first = 1 /\ every > NumProcs /\ OneInterval) =>
        /\ Cardinality({i \in CallIds : calls[i].n = 1}) <= 1
        /\ Len(delivered) <= 1
        /\ (AllIdle /\ Len(calls) >= 1) =>
            /\ Cardinality({i \in CallIds : calls[i].n = 1}) = 1
            /\ Len(delivered) = 1

C2_Witness ==
    /\ first = 1 /\ every > NumProcs /\ OneInterval /\ AllIdle
    /\ Len(calls) = NumProcs
    /\ Len(delivered) = 1
    /\ \E i \in CallIds : calls[i].path = "raced"
    /\ \E i \in CallIds : calls[i].path = "live"

\* C3: after a window was started by a record at t0, the first later call
\* whose time is at or after t0 + interval gets ordinal 1 and is forwarded,
\* however many records the window counted or dropped.
C3_WindowRollover ==
    \A i, j \in CallIds :
        ( /\ i < j /\ Done(j)
          /\ calls[i].path = "reset"
          /\ calls[j].time >= calls[i].time + interval
          /\ \A k \in CallIds :
                (i < k /\ k < j) => calls[k].time < calls[i].time + interval )
        => (calls[j].n = 1 /\ calls[j].out = "forwarded")

C3_Witness ==
    /\ AllIdle
    /\ \E i, j, k \in CallIds :
        /\ i < k /\ k < j
        /\ calls[i].path = "reset"
        /\ calls[k].out = "dropped"
        /\ calls[k].time < calls[i].time + interval
        /\ calls[j].time = calls[i].time + interval
        /\ calls[j].n = 1 /\ calls[j].out = "forwarded"

\* C4: with every = 0, of k sequential records inside one window exactly the
\* first min(k, first) are forwarded and all later ones are dropped.
C4_EveryZeroFirstOnly ==
    (every = 0 /\ OneWindow) =>
        /\ \A i \in CallIds :
            Done(i) => ((calls[i].out = "forwarded") <=> (i <= first))
        /\ DeliveredIds = DoneAnd(LAMBDA i : i <= first)
        /\ AllIdle => Len(delivered) = Min(Len(calls), first)

C4_Witness ==
    /\ every = 0 /\ OneWindow /\ AllIdle
    /\ Len(calls) > first + 1
    /\ Len(delivered) = first

\* The calls that saw the window expired and stored 1 without being the one
\* whose compare-and-swap of resetAt started the new window.
Raced ==
    {i \in CallIds :
        \/ calls[i].path = "raced"
        \/ \E p \in Procs : rcall[p] = i /\ rpc[p] \in {"stored", "raced"}}

\* C5 as claimed: with every = 0, at most first records of one interval are
\* forwarded under every interleaving of concurrent Handle calls.
C5_AtMostFirstConcurrent ==
    (every = 0 /\ OneInterval) => Len(delivered) <= first

\* C5 as the code has it: with every = 0, the records of one interval that
\* are forwarded number at most first + L * (first - 1), where L is the number
\* of callers that saw the previous window expired and lost the race to start
\* the new one (so at most first when first = 1 or nobody lost the race).
C5_AtMostFirstPlusRaced ==
    (every = 0 /\ OneInterval) =>
        Len(delivered) <= first + Cardinality(Raced) * (first - 1)

\* The bound is reached with more records logged than it allows: first = 3,
\* one caller lost the race, five records are forwarded and one is dropped.
C5_Witness ==
    /\ every = 0 /\ OneInterval /\ AllIdle
    /\ first = MaxRaceFirst
    /\ Cardinality(Raced) = 1
    /\ Len(delivered) = first + (first - 1)
    /\ Len(calls) > Len(delivered)

\* C6: two records with the same message at levels in different buckets
\* (Debug and Error) are counted in different cells, so the first Error
\* record is forwarded whatever was logged at Debug.
C6_PerLevelCounters ==
    \A i, j \in CallIds :
        (calls[i].msg = calls[j].msg /\ calls[i].level = LevelDebug
            /\ calls[j].level = LevelError)
        => /\ calls[i].cell # calls[j].cell
           /\ (Done(j) /\ \A k \in CallIds : k < j => calls[k].level < LevelError)
                => calls[j].out = "forwarded"

\* C7: a dropped record returns nil and the downstream handler is not called;
\* a forwarded record is handed to the downstream handler exactly once,
\* unmodified, and Handle returns what the downstream handler returned.
C7_Outcomes ==
    /\ \A i \in CallIds :
        LET got == {k \in 1..Len(delivered) : delivered[k].call = i}
        IN  /\ calls[i].out = "forwarded" =>
                /\ Cardinality(got) = 1
                /\ \A k \in got :
                    delivered[k].rec = [level |-> calls[i].level,
                                        msg |-> calls[i].msg,
                                        time |-> calls[i].time]
            /\ calls[i].out # "forwarded" => got = {}
    /\ \A p \in Procs :
        (rpc[p] = "idle" /\ rcall[p] > 0) =>
            /\ calls[rcall[p]].out = "dropped" => ret[p] = "nil"
            /\ (calls[rcall[p]].out = "forwarded"
                    /\ delivered[Len(delivered)].call = rcall[p]) => ret[p] = dsRet

C7_Witness ==
    /\ rpc[1] = "idle" /\ Len(calls) >= 3
    /\ calls[Len(calls)].out = "forwarded" /\ ret[1] = "err"
    /\ \E i \in CallIds : calls[i].out = "dropped"

\* The value an option was given last.
Given1(opt) == opt[Len(opt)]

\* C21: rate.New yields first = 100 when WithFirst is absent or given 0,
\* interval = 1 second when WithInterval is absent or given a value <= 0,
\* every = 100 when WithEvery is absent and every = 0 when WithEvery(0) is
\* given; any other value is kept as given.
C21_Defaults ==
    /\ first = IF rateOpts.first = <<>> \/ Given1(rateOpts.first) = 0
               THEN 100 ELSE Given1(rateOpts.first)
    /\ every = IF rateOpts.every = <<>> THEN 100 ELSE Given1(rateOpts.every)
    /\ interval = IF rateOpts.interval = <<>> \/ Given1(rateOpts.interval) <= 0
                  THEN 1000 * 1000 * 1000 ELSE Given1(rateOpts.interval)

C21_Witness ==
    /\ rateOpts = [first |-> <<0>>, every |-> <<0>>, interval |-> <<-1>>]
    /\ first = DefaultFirst /\ every = 0 /\ interval = Second
    /\ rpc[1] = "idle" /\ Len(calls) = 2 /\ Len(delivered) = 2
    /\ calls[1].path = "reset" /\ calls[2].path = "live"

\* C30: a sequential call to counter.Inc increments within the current
\* window if and only if its timestamp is strictly less than the resetAt it
\* finds; a call whose timestamp equals (or exceeds) resetAt starts a new
\* window, returns 1 and sets resetAt to its timestamp plus interval.
C30_WindowBoundary ==
    (rcall[1] > 0 /\ rpc[1] \in {"decide", "idle"}) =>
        LET c == calls[rcall[1]]
        IN  /\ (c.path = "live") <=> (c.time < resetAfter[1])
            /\ (c.path = "live") => (c.n > 1 /\ resetAt[c.cell] = resetAfter[1])
            /\ (c.time >= resetAfter[1]) =>
                (c.path = "reset" /\ c.n = 1 /\ resetAt[c.cell] = c.time + interval)

C30_Witness ==
    /\ rcall[1] >= 3 /\ rpc[1] = "idle"
    /\ calls[rcall[1]].time = resetAfter[1]
    /\ calls[rcall[1]].time > 0
    /\ calls[rcall[1]].n = 1
    /\ resetAt[calls[rcall[1]].cell] = calls[rcall[1]].time + interval
    /\ calls[rcall[1] - 1].path = "live"
    /\ calls[rcall[1] - 1].time = resetAfter[1] - 1

\* The ordinal of every call whose Inc returned is above the number of Inc
\* calls that had returned when the call started.
NeverStaleLow ==
    \A i \in CallIds : calls[i].n # 0 => calls[i].n >= calls[i].seen + 1

\* C23 as claimed: under every interleaving of concurrent counter.Inc calls
\* with timestamps in one window, the value a call returns is never lower
\* than the number of Inc calls of that window that completed before the call
\* started, plus one.
C23_NeverStaleLow ==
    OneInterval => NeverStaleLow

\* C23 as the code has it: the same holds as long as no caller of the window
\* has seen the previous window expired, stored 1 and lost the race to start
\* the new window; such a caller's store restarts the ordinals from 1.
C23_NeverStaleLowUnraced ==
    (OneInterval /\ Raced = {}) => NeverStaleLow

C23_Witness ==
    /\ OneInterval /\ Raced = {}
    /\ \A p \in StaleProcs : rpc[p] = "idle"
    /\ Len(calls) = 4
    /\ calls[1].seen = 0 /\ calls[1].n = 1
    /\ calls[2].seen = 1 /\ calls[2].n = 3
    /\ calls[3].seen = 1 /\ calls[3].n = 2
    /\ calls[4].seen = 3 /\ calls[4].n = 4

(***************************************************************************)
(* Specifications of the sampling handler.                                 *)
(***************************************************************************)
\* The rate limiter as New builds it with no option; it stays idle here.
RateIdle == RateWith(<<>>, <<>>, <<>>)

\* One caller logging unsampled records in one buffered scope.
InitBuf ==
    /\ \E l \in {LevelWarn, LevelError} : BufInit(l)
    /\ RateIdle
    /\ Built

NextBuf ==
    \/ WithBuffer(1)
    \/ SHandleStart(1, {1}, {LevelInfo, LevelError}, {0}, {FALSE}, MaxRecords)
    \/ SForward(1, {"nil"})
    \/ SBufferLoad(1)
    \/ SSend(1)
    \/ SEvictCheck(1)
    \/ SGrowRead(1)
    \/ SGrowLen(1)
    \/ SGrow(1)
    \/ SGrowStore(1)
    \/ SEvictRead(1)
    \/ SEvictRecv(1)
    \/ SEvictAppend(1)
    \/ SEvictStore(1)
    \/ SEvictElem(1)
    \/ SDrainSwap(1)
    \/ SDrainRange(1)
    \/ SDrainElem(1)
    \/ SDrainOverflow(1, {"nil"})
    \/ SDrainClearRead(1)
    \/ SDrainClear(1)
    \/ SDrainTrunc(1)
    \/ SDrainRecv(1)
    \/ SDrainQueue(1, {"nil"})

SpecBuf == InitBuf /\ [][NextBuf]_vars

\* Several callers logging unsampled records concurrently in one buffered
\* scope whose queue is already full of entries deferred by earlier
\* sequential calls.
Prefill == QueueCap

\* The two callers that log concurrently.
ConcProcs == {1, 2}

InitBufConc ==
    /\ level = LevelError
    /\ made = {1}
    /\ pool = [b \in BufIds |-> 0]
    /\ entries = [b \in BufIds |->
                    IF b = 1
                    THEN [i \in 1..Prefill |->
                            [handler |-> 0, ctx |-> 1, id |-> i, level |-> LevelInfo]]
                    ELSE <<>>]
    /\ BufFresh
    /\ ctxBuf = [s \in Scopes |-> IF s = 1 THEN 1 ELSE 0]
    /\ spc = [p \in BufProcs |-> "idle"]
    /\ scall = [p \in BufProcs |-> 0]
    /\ se = [p \in BufProcs |-> NoEntry]
    /\ recs = [i \in 1..Prefill |->
                [level |-> LevelInfo, ctx |-> 1, handler |-> 0, sampled |-> FALSE,
                 done |-> TRUE, flipped |-> FALSE, deferred |-> TRUE,
                 before |-> 1..(i - 1)]]
    /\ out = <<>>
    /\ sret = [p \in BufProcs |-> "none"]
    /\ SizeWith(<<>>)
    /\ RateIdle
    /\ Built

NextBufConc ==
    \E p \in ConcProcs :
        \/ SHandleStart(p, {1}, {LevelInfo, LevelError}, {0}, {FALSE},
                        Prefill + MaxConcRecords)
        \/ SForward(p, {"nil"})
        \/ SBufferLoad(p)
        \/ SSend(p)
        \/ SEvictCheck(p)
        \/ SGrowRead(p)
        \/ SGrowLen(p)
        \/ SGrow(p)
        \/ SGrowStore(p)
        \/ SEvictRead(p)
        \/ SEvictRecv(p)
        \/ SEvictAppend(p)
        \/ SEvictStore(p)
        \/ SEvictElem(p)
        \/ SDrainSwap(p)
        \/ SDrainRange(p)
        \/ SDrainElem(p)
        \/ SDrainOverflow(p, {"nil"})
        \/ SDrainClearRead(p)
        \/ SDrainClear(p)
        \/ SDrainTrunc(p)
        \/ SDrainRecv(p)
        \/ SDrainQueue(p, {"nil"})

SpecBufConc == InitBufConc /\ [][NextBufConc]_vars

\* One caller logging records below the minimum level while another logs one
\* qualifying record, in the same scope with its queue full: the qualifying
\* record's call is the only one that drains, so it performs the flush.
NoneQualified == \A i \in 1..Len(recs) : recs[i].level < level

NextFlush ==
    \/ SHandleStart(1, {1}, {LevelInfo}, {0}, {FALSE}, Prefill + MaxConcRecords)
    \/ NoneQualified
        /\ SHandleStart(2, {1}, {LevelError}, {0}, {FALSE}, Prefill + MaxConcRecords)
    \/ \E p \in ConcProcs :
        \/ SForward(p, {"nil"})
        \/ SBufferLoad(p)
        \/ SSend(p)
        \/ SEvictCheck(p)
        \/ SGrowRead(p)
        \/ SGrowLen(p)
        \/ SGrow(p)
        \/ SGrowStore(p)
        \/ SEvictRead(p)
        \/ SEvictRecv(p)
        \/ SEvictAppend(p)
        \/ SEvictStore(p)
        \/ SEvictElem(p)
        \/ SDrainSwap(p)
        \/ SDrainRange(p)
        \/ SDrainElem(p)
        \/ SDrainOverflow(p, {"nil"})
        \/ SDrainClearRead(p)
        \/ SDrainClear(p)
        \/ SDrainTrunc(p)
        \/ SDrainRecv(p)
        \/ SDrainQueue(p, {"nil"})

SpecFlush == InitBufConc /\ [][NextFlush]_vars

\* The scopes that are open: WithBuffer was called and the release function
\* was not.
OpenScopes == {s \in Scopes : ctxBuf[s] # 0 /\ released[s] = 0}

\* The scopes before this one are over: their release function was called
\* and has returned.
Released(s) == \A t \in Scopes : t < s => (released[t] > 0 /\ relpc[t] = "idle")

\* One caller logging unsampled records in two scopes, one after the other,
\* each opened by WithBuffer and released once, when no Handle call is
\* running; the second scope may get the buffer of the first from the pool.
TwoScopes == {1, 2}

InitScope ==
    /\ BufInit(LevelError)
    /\ RateIdle
    /\ Built

NextScope ==
    \/ \E s \in TwoScopes : Released(s) /\ WithBuffer(s)
    \/ SHandleStart(1, OpenScopes, {LevelInfo, LevelError}, {0}, {FALSE}, MaxScopeRecords)
    \/ SForward(1, {"nil"})
    \/ SBufferLoad(1)
    \/ SSend(1)
    \/ SEvictCheck(1)
    \/ SGrowRead(1)
    \/ SGrowLen(1)
    \/ SGrow(1)
    \/ SGrowStore(1)
    \/ SEvictRead(1)
    \/ SEvictRecv(1)
    \/ SEvictAppend(1)
    \/ SEvictStore(1)
    \/ SEvictElem(1)
    \/ SDrainSwap(1)
    \/ SDrainRange(1)
    \/ SDrainElem(1)
    \/ SDrainOverflow(1, {"nil"})
    \/ SDrainClearRead(1)
    \/ SDrainClear(1)
    \/ SDrainTrunc(1)
    \/ SDrainRecv(1)
    \/ SDrainQueue(1, {"nil"})
    \/ \E s \in TwoScopes : spc[1] = "idle" /\ Release(s, 1)
    \/ \E s \in TwoScopes : RelDiscard(s)
    \/ \E s \in TwoScopes : RelClearRead(s)
    \/ \E s \in TwoScopes : RelClear(s)
    \/ \E s \in TwoScopes : RelTrunc(s)
    \/ \E s \in TwoScopes : RelPut(s)

SpecScope == InitScope /\ [][NextScope]_vars

\* One caller logging sampled and unsampled records, with the background
\* context and in a buffered scope, to a downstream handler that may fail.
\* Fewer records are logged than the queue holds, so that no send finds the
\* queue full.
InitSample ==
    /\ BufInit(LevelError)
    /\ RateIdle
    /\ Built

NextSample ==
    \/ WithBuffer(1)
    \/ SHandleStart(1, {0} \cup OpenScopes, {LevelInfo, LevelError}, {0}, BOOLEAN,
                    MaxSampleRecords)
    \/ SForward(1, Results)
    \/ SBufferLoad(1)
    \/ SSend(1)
    \/ SDrainSwap(1)
    \/ SDrainRange(1)
    \/ SDrainElem(1)
    \/ SDrainClearRead(1)
    \/ SDrainClear(1)
    \/ SDrainTrunc(1)
    \/ SDrainRecv(1)
    \/ SDrainQueue(1, Results)

SpecSample == InitSample /\ [][NextSample]_vars

\* One caller logging unsampled records in a buffered scope whose queue is
\* already full, to downstream handlers that may fail: the drain goes through
\* the overflow and through the queue.
NextDrainErr ==
    \/ SHandleStart(1, {1}, {LevelInfo, LevelError}, {0}, {FALSE},
                    Prefill + MaxErrRecords)
    \/ SForward(1, Results)
    \/ SBufferLoad(1)
    \/ SSend(1)
    \/ SEvictCheck(1)
    \/ SGrowRead(1)
    \/ SGrowLen(1)
    \/ SGrow(1)
    \/ SGrowStore(1)
    \/ SEvictRead(1)
    \/ SEvictRecv(1)
    \/ SEvictAppend(1)
    \/ SEvictStore(1)
    \/ SEvictElem(1)
    \/ SDrainSwap(1)
    \/ SDrainRange(1)
    \/ SDrainElem(1)
    \/ SDrainOverflow(1, Results)
    \/ SDrainClearRead(1)
    \/ SDrainClear(1)
    \/ SDrainTrunc(1)
    \/ SDrainRecv(1)
    \/ SDrainQueue(1, Results)

SpecDrainErr == InitBufConc /\ [][NextDrainErr]_vars

\* Handler.Enabled asked for every context, level, sampling decision and
\* answer of the downstream handler, before, in and after a buffered scope.
InitEnabled ==
    /\ \E l \in {LevelWarn, LevelError} : BufInit(l)
    /\ RateIdle
    /\ Built

NextEnabled ==
    \/ WithBuffer(1)
    \/ SEnabled({0, 1}, {LevelInfo, LevelWarn, LevelError}, BOOLEAN, BOOLEAN, MaxAsked)
    \/ Release(1, 1)
    \/ RelDiscard(1)
    \/ RelClearRead(1)
    \/ RelClear(1)
    \/ RelTrunc(1)
    \/ RelPut(1)

SpecEnabled == InitEnabled /\ [][NextEnabled]_vars

\* The two constructors called with every combination of nil and non-nil
\* arguments; Handle can be called only on a Handler that New returned.
InitNew ==
    /\ \E rateHandler \in {Nil, Given}, sampHandler \in {Nil, Given},
          sampler \in {Nil, Given} : AuxInit(rateHandler, sampHandler, sampler)
    /\ RateWith(<<1>>, <<0>>, <<Interval>>)
    /\ BufInit(LevelError)

NextNew ==
    \/ rateNew.panic = NoPanic /\ HandleStart(1, {LevelInfo}, {MsgMsg}, {0}, MaxNewCalls)
    \/ IncCount(1)
    \/ IncCas(1)
    \/ HandleDecide(1, Results)
    \/ sampNew.panic = NoPanic
            /\ SHandleStart(1, {0}, {LevelInfo, LevelError}, {0}, BOOLEAN, MaxNewCalls)
    \/ SForward(1, Results)

SpecNew == InitNew /\ [][NextNew]_vars

\* Three scopes opened and released concurrently, each released once, while
\* a caller logs below-minimum records in the scopes that are open.
ThreeScopes == {1, 2, 3}

InitPool ==
    /\ BufInit(LevelError)
    /\ RateIdle
    /\ Built

NextPool ==
    \/ \E s \in ThreeScopes : WithBuffer(s)
    \/ \E s \in ThreeScopes : Release(s, 1)
    \/ \E s \in ThreeScopes : RelDiscard(s)
    \/ \E s \in ThreeScopes : RelClearRead(s)
    \/ \E s \in ThreeScopes : RelClear(s)
    \/ \E s \in ThreeScopes : RelTrunc(s)
    \/ \E s \in ThreeScopes : RelPut(s)
    \/ SHandleStart(1, OpenScopes, {LevelInfo}, {0}, {FALSE}, MaxPoolRecords)
    \/ SBufferLoad(1)
    \/ SSend(1)

SpecPool == InitPool /\ [][NextPool]_vars

\* The sizes given to WithBufferSize: no option, zero, and positive sizes.
SizeOpts == {<<>>, <<0>>, <<1>>, <<MaxBufferSize>>, <<MaxBufferSize, 0>>}

\* The handler with the WithBufferSize option: callers logging unsampled
\* records in one scope with a freshly acquired buffer.
InitSize ==
    /\ BufStart(LevelError)
    /\ \E opts \in SizeOpts : SizeWith(opts)
    /\ RateIdle
    /\ Built

NextSize ==
    \/ WithBuffer(1)
    \/ VRelease(1, 1)
    \/ VRelDiscard(1)
    \/ RelPut(1)
    \/ \E p \in BufProcs :
        \/ SHandleStart(p, {1}, {LevelInfo, LevelError}, {0}, {FALSE}, MaxSizeRecords)
        \/ SForward(p, {"nil"})
        \/ SBufferLoad(p)
        \/ VSend(p)
        \/ VRecv(p)
        \/ VDrainSwap(p)
        \/ SDrainRecv(p)
        \/ SDrainQueue(p, {"nil"})

SpecSize == InitSize /\ [][NextSize]_vars

\* otel.New called with a nil or a given handler and with no option,
\* WithRecordEvent(false) or WithRecordEvent(true): sequential Handle calls with any span in the context.
InitOtel ==
    /\ AuxStart(Given, Given, Given)
    /\ \E handler \in {Nil, Given}, opts \in {<<>>, <<FALSE>>, <<TRUE>>} :
        OtelWith(handler, opts)
    /\ RateIdle
    /\ BufInit(LevelError)

NextOtel ==
    \/ OHandleStart(SpanCtxs({0, 1}), {LevelInfo, LevelError}, MaxOtelCalls)
    \/ OEvent
    \/ OForward(Results)

SpecOtel == InitOtel /\ [][NextOtel]_vars

\* TraceSampler asked about contexts with any span context.
InitSampler ==
    /\ RateIdle
    /\ BufInit(LevelError)
    /\ Built

NextSampler == OSample(SpanCtxs(0..3), MaxSamplerCalls)

SpecSampler == InitSampler /\ [][NextSampler]_vars

\* As SpecPool, the owner of a scope calling its release function more than
\* once.
NextRepeat ==
    \/ \E s \in ThreeScopes : WithBuffer(s)
    \/ \E s \in ThreeScopes : Release(s, MaxReleases)
    \/ \E s \in ThreeScopes : RelDiscard(s)
    \/ \E s \in ThreeScopes : RelClearRead(s)
    \/ \E s \in ThreeScopes : RelClear(s)
    \/ \E s \in ThreeScopes : RelTrunc(s)
    \/ \E s \in ThreeScopes : RelPut(s)
    \/ SHandleStart(1, OpenScopes, {LevelInfo}, {0}, {FALSE}, MaxRepeatRecords)
    \/ SBufferLoad(1)
    \/ SSend(1)

SpecRepeat == InitPool /\ [][NextRepeat]_vars

\* One caller logging in one scope through two handlers (the Handler and one
\* derived from it by WithAttrs or WithGroup) and with two contexts (the one
\* WithBuffer returned and one derived from it, which holds the same buffer);
\* the queue is already full of entries deferred with alternating handlers
\* and contexts.
SnapHandler(i) == i % 2
SnapCtx(i) == 1 + (i % 2)

InitSnapshot ==
    /\ level = LevelError
    /\ made = {1}
    /\ pool = [b \in BufIds |-> 0]
    /\ entries = [b \in BufIds |->
                    IF b = 1
                    THEN [i \in 1..Prefill |->
                            [handler |-> SnapHandler(i), ctx |-> SnapCtx(i), id |-> i,
                             level |-> LevelInfo]]
                    ELSE <<>>]
    /\ BufFresh
    /\ ctxBuf = [s \in Scopes |-> IF s \in {1, 2} THEN 1 ELSE 0]
    /\ spc = [p \in BufProcs |-> "idle"]
    /\ scall = [p \in BufProcs |-> 0]
    /\ se = [p \in BufProcs |-> NoEntry]
    /\ recs = [i \in 1..Prefill |->
                [level |-> LevelInfo, ctx |-> SnapCtx(i), handler |-> SnapHandler(i),
                 sampled |-> FALSE, done |-> TRUE, flipped |-> FALSE, deferred |-> TRUE,
                 before |-> 1..(i - 1)]]
    /\ out = <<>>
    /\ sret = [p \in BufProcs |-> "none"]
    /\ SizeWith(<<>>)
    /\ RateIdle
    /\ Built

NextSnapshot ==
    \/ SHandleStart(1, {1, 2}, {LevelInfo, LevelError}, {0, 1}, {FALSE},
                    Prefill + MaxSnapRecords)
    \/ SForward(1, {"nil"})
    \/ SBufferLoad(1)
    \/ SSend(1)
    \/ SEvictCheck(1)
    \/ SGrowRead(1)
    \/ SGrowLen(1)
    \/ SGrow(1)
    \/ SGrowStore(1)
    \/ SEvictRead(1)
    \/ SEvictRecv(1)
    \/ SEvictAppend(1)
    \/ SEvictStore(1)
    \/ SEvictElem(1)
    \/ SDrainSwap(1)
    \/ SDrainRange(1)
    \/ SDrainElem(1)
    \/ SDrainOverflow(1, {"nil"})
    \/ SDrainClearRead(1)
    \/ SDrainClear(1)
    \/ SDrainTrunc(1)
    \/ SDrainRecv(1)
    \/ SDrainQueue(1, {"nil"})

SpecSnapshot == InitSnapshot /\ [][NextSnapshot]_vars

\* No sampling Handle call is running.
AllReturned == \A p \in BufProcs : spc[p] = "idle"

\* Several callers logging unsampled records concurrently in a scope that is
\* released when their calls have returned, and then in a second scope, which
\* may get the buffer of the first from the pool.  Fewer records are logged
\* than the queue holds.
InitReuse ==
    /\ BufInit(LevelError)
    /\ RateIdle
    /\ Built

NextReuse ==
    \/ \E s \in TwoScopes : Released(s) /\ WithBuffer(s)
    \/ \E s \in TwoScopes : AllReturned /\ Release(s, 1)
    \/ \E s \in TwoScopes : RelDiscard(s)
    \/ \E s \in TwoScopes : RelClearRead(s)
    \/ \E s \in TwoScopes : RelClear(s)
    \/ \E s \in TwoScopes : RelTrunc(s)
    \/ \E s \in TwoScopes : RelPut(s)
    \/ \E p \in BufProcs :
        \/ SHandleStart(p, OpenScopes, {LevelInfo, LevelError}, {0}, {FALSE},
                        MaxReuseRecords)
        \/ SForward(p, {"nil"})
        \/ SBufferLoad(p)
        \/ SSend(p)
        \/ SDrainSwap(p)
        \/ SDrainRange(p)
        \/ SDrainElem(p)
        \/ SDrainClearRead(p)
        \/ SDrainClear(p)
        \/ SDrainTrunc(p)
        \/ SDrainRecv(p)
        \/ SDrainQueue(p, {"nil"})

SpecReuse == InitReuse /\ [][NextReuse]_vars

(***************************************************************************)
(* Vocabulary of the sampling handler's claims.                            *)
(***************************************************************************)
RecIds == 1..Len(recs)
\* The entries in the overflow of a buffer.
Overflow(b) == Elems(overflow[b])
\* The records at or above the minimum level.
Qualifying == {i \in RecIds : recs[i].level >= level}
FirstQualifying == CHOOSE q \in Qualifying : \A i \in Qualifying : q <= i

\* The records the buffer took in, in the order of their calls.
DeferredIds == SelectSeq([i \in RecIds |-> i], LAMBDA i : recs[i].deferred)

\* The records drain sent downstream, in the order they were sent.
DrainedIds ==
    LET sent == SelectSeq(out, LAMBDA o : o.via = "drain")
    IN  [k \in 1..Len(sent) |-> sent[k].id]

IsPrefix(s, t) == Len(s) <= Len(t) /\ \A k \in 1..Len(s) : s[k] = t[k]

\* C8: in a buffered scope with a negative sampling decision, records below
\* the minimum level are not sent downstream when handled; when the first
\* record at or above the minimum level is handled, the records deferred so
\* far are sent in arrival order, the triggering record right after the last
\* of them, and the triggering record is never placed in the buffer.
C8_BufferTrigger ==
    /\ (Qualifying = {} \/ ~recs[FirstQualifying].flipped) => out = <<>>
    /\ (Qualifying # {} /\ recs[FirstQualifying].done) =>
        /\ Len(out) >= FirstQualifying
        /\ \A k \in 1..FirstQualifying :
            /\ out[k].id = k
            /\ out[k].via = IF k < FirstQualifying THEN "drain" ELSE "forward"
    /\ \A b \in BufIds :
        /\ \A k \in 1..Len(entries[b]) : entries[b][k].level < level
        /\ \A k \in 1..Len(Overflow(b)) : Overflow(b)[k].level < level
    /\ \A i \in Qualifying : ~recs[i].deferred

C8_Witness ==
    /\ Qualifying # {}
    /\ FirstQualifying = 3
    /\ recs[FirstQualifying].level = level
    /\ recs[FirstQualifying].done
    /\ Len(out) = 3

\* C9: for any n, also n greater than the queue's capacity 8, appending
\* e1..en to an armed buffer and then draining sends e1..en to their handlers
\* in exactly that order, each exactly once, with no entry lost: the drain
\* meets no zero entry and no caller panics.
C9_FifoWithOverflow ==
    /\ \A p \in BufProcs : spc[p] # "panic"
    /\ IsPrefix(DrainedIds, DeferredIds)
    /\ \A i \in RecIds :
        (recs[i].flipped /\ recs[i].done) =>
            /\ DrainedIds = DeferredIds
            /\ \A j \in 1..Len(DrainedIds) : DrainedIds[j] = j
            /\ Len(DrainedIds) = i - 1

C9_Witness ==
    /\ \E i \in RecIds : recs[i].flipped /\ recs[i].done
    /\ Len(DeferredIds) > QueueCap
    /\ DrainedIds = DeferredIds

\* C10: within one lifetime of a buffer, however many drain calls are made,
\* one after another or concurrently, only the call that flips the drained
\* flag from false to true flushes, and every deferred entry is sent to its
\* handler at most once: no two downstream calls carry the record of one
\* deferred entry.
C10_DrainOneShot ==
    /\ Cardinality({i \in RecIds : recs[i].flipped}) <= 1
    /\ \A k \in 1..Len(out) : out[k].via = "drain" => recs[out[k].by].flipped
    /\ \A k, m \in 1..Len(out) :
        (out[k].id # 0 /\ out[k].id = out[m].id /\ recs[out[k].id].deferred) => k = m

C10_Witness ==
    /\ \A p \in BufProcs : spc[p] = "idle"
    /\ \E i, j \in RecIds :
        /\ i # j
        /\ recs[i].flipped /\ recs[i].done
        /\ j \in Qualifying /\ ~recs[j].flipped /\ recs[j].done
        /\ \E k, m \in 1..Len(out) :
            /\ k < m
            /\ out[k].via = "forward" /\ out[k].by = j
            /\ out[m].via = "drain" /\ out[m].by = i
    /\ Len(DrainedIds) >= Prefill

\* A drain ran in the scope: one of its records flipped the drained flag.
ScopeDrained(s) == \E j \in RecIds : recs[j].ctx = s /\ recs[j].flipped

\* The records deferred in a scope, in the order of their calls.
DeferredIn(s) == SelectSeq(DeferredIds, LAMBDA i : recs[i].ctx = s)

\* The scope is over: its release function was called and has returned.
Over(s) == released[s] > 0 /\ relpc[s] = "idle"

\* An append or a clear is between the words of an element of buffer b's
\* overflow, which then holds part of an entry.
ElemBusy(b) ==
    \/ \E s \in Scopes : ctxBuf[s] = b /\ relpc[s] = "clear_w"
    \/ \E p \in BufProcs : spc[p] \in {"st_elem", "clear_w"} /\ BufOf(p) = b

\* C11: entries appended to a scope's buffer (also more than the queue holds,
\* so that some are in overflow) and released without any drain are never sent
\* to a downstream handler, neither at release nor by a later scope that
\* reuses the buffer; release leaves the buffer empty: what the queue and the
\* overflow hold belongs to a scope that is not over, but for the part of an
\* entry a running append or clear is at.
C11_ResetDiscards ==
    /\ \A i \in RecIds :
        (recs[i].deferred /\ released[recs[i].ctx] > 0 /\ ~ScopeDrained(recs[i].ctx))
            => \A k \in 1..Len(out) : out[k].id # i
    /\ \A b \in BufIds :
        \A k \in 1..Len(entries[b]) : ~Over(entries[b][k].ctx)
    /\ \A b \in BufIds :
        \A k \in 1..Len(Overflow(b)) :
            Overflow(b)[k] # NoEntry =>
                IF Overflow(b)[k].ctx = 0 THEN ElemBusy(b)
                ELSE ~Over(Overflow(b)[k].ctx)

C11_Witness ==
    /\ spc[1] = "idle"
    /\ released[1] = 1 /\ ~ScopeDrained(1)
    /\ Len(DeferredIn(1)) > QueueCap
    /\ ctxBuf[2] = ctxBuf[1]
    /\ ScopeDrained(2)
    /\ Len(DeferredIn(2)) >= 1
    /\ DrainedIds = DeferredIn(2)

\* The downstream calls that carry record i.
OutOf(i) == {k \in 1..Len(out) : out[k].id = i}

\* Record i was forwarded directly, during its own Handle call, exactly once.
ForwardedDirectly(i) ==
    /\ Cardinality(OutOf(i)) = 1
    /\ \A k \in OutOf(i) : out[k].via = "forward" /\ out[k].by = i

\* Record i is held in some buffer.
Held(i) ==
    \E b \in BufIds :
        \/ \E k \in 1..Len(entries[b]) : entries[b][k].id = i
        \/ \E k \in 1..Len(Overflow(b)) : Overflow(b)[k].id = i

\* The below-minimum records handled in a scope after a record of that scope
\* drained its buffer.
AfterDrain ==
    {i \in RecIds :
        /\ recs[i].level < level
        /\ \E j \in RecIds : j < i /\ recs[j].ctx = recs[i].ctx /\ recs[j].flipped}

\* C12: once a scope's buffer was drained, every later below-minimum
\* unsampled record handled in that scope before its release is not enqueued
\* but forwarded to its own handler during its Handle call.
C12_PostDrainBypass ==
    \A i \in AfterDrain :
        /\ ~recs[i].deferred
        /\ ~Held(i)
        /\ recs[i].done => ForwardedDirectly(i)
        /\ \A k \in OutOf(i) : out[k].handler = recs[i].handler

C12_Witness ==
    /\ spc[1] = "idle"
    /\ \E i \in AfterDrain :
        /\ recs[i].done
        /\ out[Len(out)].id = i /\ out[Len(out)].via = "forward"
        /\ \E k \in 1..Len(out) : out[k].via = "drain" /\ out[k].ctx = recs[i].ctx
    /\ released = [s \in Scopes |-> 0]

\* The sequential caller's call is over and was the call of record i.
Finished(i) == spc[1] = "idle" /\ scall[1] = i

\* What the downstream handler returned for the last record it was given.
LastRes == out[Len(out)].res

\* The records handled with a positive sampling decision.
SampledIds == {i \in RecIds : recs[i].sampled}

\* A sampled record goes straight to the downstream handler, is never held
\* by a buffer, and its call returns what the downstream handler returned.
SampledForwarded ==
    \A i \in SampledIds :
        /\ ~recs[i].deferred /\ ~recs[i].flipped /\ ~Held(i)
        /\ (scall[1] = i /\ spc[1] # "idle") => (spc[1] = "forward" /\ OutOf(i) = {})
        /\ recs[i].done => ForwardedDirectly(i)
        /\ Finished(i) => (out[Len(out)].id = i /\ sret[1] = LastRes)

\* C13: with a positive sampling decision Handle forwards the record to the
\* downstream handler at once and returns its result, at every level and
\* with or without a buffer bound; the record is never placed in the buffer,
\* and the call leaves the buffer's queue, overflow and drained flag as they
\* were.
C13_SampledPassThrough ==
    [][(scall'[1] > 0 /\ recs'[scall'[1]].sampled)
            => (UNCHANGED <<entries, overflow, drained>> /\ SampledForwarded')]_vars

C13_Witness ==
    /\ \E i \in SampledIds :
        /\ Finished(i)
        /\ recs[i].level = LevelInfo /\ recs[i].ctx = 1
        /\ sret[1] = "err"
        /\ Len(entries[ctxBuf[1]]) = 1 /\ ~drained[ctxBuf[1]]
    /\ \E j \in SampledIds :
        recs[j].done /\ recs[j].level = LevelError /\ recs[j].ctx = 0

\* The records handled with a negative sampling decision and a context that
\* holds no buffer.
Unbuffered == {i \in RecIds : ~recs[i].sampled /\ recs[i].ctx = 0}

\* C14 as claimed: with a negative sampling decision and no buffer bound,
\* Handle drops a record below the minimum level (returns nil, no downstream
\* call) and forwards a record at or above it.
C14_UnbufferedDropsBelow ==
    \A i \in Unbuffered :
        recs[i].done =>
            IF recs[i].level < level
            THEN OutOf(i) = {} /\ (Finished(i) => sret[1] = "nil")
            ELSE ForwardedDirectly(i)

\* C14 as the code has it: with a negative sampling decision and no buffer
\* bound, Handle forwards the record to the downstream handler and returns
\* its result whether the level is below the minimum or not.
C14_UnbufferedForwardsAll ==
    \A i \in Unbuffered :
        /\ ~recs[i].deferred /\ ~recs[i].flipped /\ ~Held(i)
        /\ (scall[1] = i /\ spc[1] # "idle") => spc[1] = "forward"
        /\ recs[i].done => ForwardedDirectly(i)
        /\ Finished(i) => (out[Len(out)].id = i /\ sret[1] = LastRes)

C14_Witness ==
    \E i, j \in Unbuffered :
        /\ recs[i].level < level /\ recs[i].done /\ ForwardedDirectly(i)
        /\ recs[j].level >= level /\ recs[j].done /\ ForwardedDirectly(j)
        /\ Finished(j) /\ sret[1] = "err"

\* The records a call sent downstream while draining, in the order sent.
DrainedBy(j) ==
    LET sent == SelectSeq(out, LAMBDA o : o.via = "drain" /\ o.by = j)
    IN  [k \in 1..Len(sent) |-> sent[k].id]

\* The records deferred in the scope of record j before the call of record j
\* started, in the order of their calls.
DeferredBefore(j) ==
    SelectSeq(DeferredIds, LAMBDA i : i \in recs[j].before /\ recs[i].ctx = recs[j].ctx)

\* C15: Enabled(ctx, level) is false whenever the downstream Enabled is
\* false; otherwise, with no buffer bound to ctx and a negative sampling
\* decision it is (level >= minimum level); otherwise (buffer bound, or
\* sampled) it is true at every level.
C15_EnabledTable ==
    \A k \in 1..Len(asked) :
        /\ ~asked[k].ds => ~asked[k].res
        /\ (asked[k].ds /\ asked[k].ctx = 0 /\ ~asked[k].sampled)
                => (asked[k].res <=> asked[k].level >= level)
        /\ (asked[k].ds /\ (asked[k].ctx # 0 \/ asked[k].sampled)) => asked[k].res

C15_Witness ==
    /\ level = LevelWarn
    /\ Len(asked) = 2
    /\ asked[1].ds /\ asked[1].ctx = 0 /\ ~asked[1].sampled
    /\ asked[1].level = LevelWarn /\ asked[1].res
    /\ asked[2].ds /\ asked[2].ctx = 0 /\ ~asked[2].sampled
    /\ asked[2].level = LevelInfo /\ ~asked[2].res

\* No caller can take a step and none will ever be able to.
Quiescent == ~ENABLED NextBufConc

\* C16: every call that defers a record into a scope's buffer returns, also
\* when the queue is full and another caller drains the buffer between the
\* failed enqueue and the eviction of the oldest entry: when no step is left
\* to take, no caller is still inside Handle waiting (a caller that a panic
\* stopped is not waiting).
C16_AppendNeverBlocks ==
    Quiescent => \A p \in BufProcs : spc[p] \in {"idle", "panic"}

\* C17: whatever the handlers of the deferred entries return during drain,
\* every deferred entry is sent, in order; the Handle call of the triggering
\* record returns what forwarding the triggering record itself returned.
C17_DrainBestEffort ==
    \A j \in RecIds :
        recs[j].flipped =>
            /\ IsPrefix(DrainedBy(j), DeferredBefore(j))
            /\ recs[j].done =>
                /\ DrainedBy(j) = DeferredBefore(j)
                /\ ForwardedDirectly(j)
                /\ \A k \in OutOf(j) :
                    \A m \in 1..Len(out) : out[m].by = j => m <= k
            /\ Finished(j) => (out[Len(out)].id = j /\ sret[1] = LastRes)

C17_Witness ==
    \E j \in RecIds :
        /\ recs[j].flipped /\ Finished(j)
        /\ Len(DrainedBy(j)) > QueueCap
        /\ Len(out) = j
        /\ out[1].res = "err" /\ out[2].res = "nil" /\ out[3].res = "err"
        /\ out[j - 1].res = "err" /\ out[j - 1].via = "drain"
        /\ out[j].res = "nil" /\ sret[1] = "nil"

\* C18: when Handle defers a record into an armed buffer, no downstream
\* Handle call is made during that call and the call returns nil.
C18_DeferralReturnsNil ==
    \A i \in RecIds :
        recs[i].deferred =>
            /\ \A k \in 1..Len(out) : out[k].by # i
            /\ Finished(i) => sret[1] = "nil"

C18_Witness ==
    \E i \in RecIds :
        /\ i > Prefill
        /\ recs[i].deferred /\ Finished(i)
        /\ Overflow(BufOf(1)) # <<>>
        /\ Len(entries[BufOf(1)]) = QueueCap
        /\ ~drained[BufOf(1)]
        /\ sret[1] = "nil"

\* C19: whenever Handle forwards a record directly (a sampled record, a
\* qualifying record after the drain, an unbuffered record, a below-minimum
\* record after the buffer was drained), it returns exactly what the
\* downstream Handle call for that record returned.
C19_ForwardPropagates ==
    \A i \in RecIds :
        (recs[i].done /\ ~recs[i].deferred) =>
            /\ ForwardedDirectly(i)
            /\ Finished(i) => (out[Len(out)].id = i /\ sret[1] = LastRes)

C19_Witness ==
    /\ Len(recs) = 3 /\ Finished(3)
    /\ Len(out) = 3 /\ \A k \in 1..3 : out[k].id = k /\ out[k].res = "err"
    /\ recs[1].ctx = 1 /\ ~recs[1].sampled /\ recs[1].flipped
    /\ recs[2].ctx = 1 /\ ~recs[2].sampled /\ recs[2].level < level
    /\ recs[3].sampled
    /\ sret[1] = "err"

\* C20: rate.New with a nil handler panics with "cannot create Handler with
\* nil handler"; sampling.New panics with that message for a nil handler and
\* with "cannot create Handler with nil sampler" for a nil sampler; the panic
\* happens in New, which returns no Handler, so no Handle call is ever made.
C20_ConstructionFailsFast ==
    /\ rateNew.handler = Nil =>
        (rateNew.panic = "cannot create Handler with nil handler" /\ calls = <<>>)
    /\ rateNew.handler # Nil => rateNew.panic = NoPanic
    /\ sampNew.handler = Nil =>
        (sampNew.panic = "cannot create Handler with nil handler" /\ recs = <<>>)
    /\ (sampNew.handler # Nil /\ sampNew.sampler = Nil) =>
        (sampNew.panic = "cannot create Handler with nil sampler" /\ recs = <<>>)
    /\ (sampNew.handler # Nil /\ sampNew.sampler # Nil) => sampNew.panic = NoPanic

C20_Witness ==
    /\ sampNew.handler = Given /\ sampNew.sampler = Nil
    /\ sampNew.panic = PanicNilSampler
    /\ recs = <<>>
    /\ rateNew.panic = NoPanic
    /\ Len(calls) = MaxNewCalls /\ rpc[1] = "idle"

\* C22: provided each release function is called exactly once, no two scopes
\* whose release function has not been called are bound to the same buffer,
\* for every interleaving of WithBuffer and release calls; a buffer sits in
\* the pool at most once, and never while an open scope holds it.
C22_ExclusiveOwnership ==
    /\ \A s, t \in OpenScopes : s # t => ctxBuf[s] # ctxBuf[t]
    /\ \A b \in BufIds : pool[b] <= 1
    /\ \A s \in OpenScopes : pool[ctxBuf[s]] = 0

C22_Witness ==
    /\ released[1] = 1 /\ released[2] = 0 /\ released[3] = 0
    /\ ctxBuf[2] = ctxBuf[1]
    /\ ctxBuf[3] # 0 /\ ctxBuf[3] # ctxBuf[2]
    /\ Len(entries[ctxBuf[2]]) = 1 /\ Len(entries[ctxBuf[3]]) = 1

\* The events recorded on spans and the downstream calls of otel Handle call i.
EventsOf(i) == {k \in 1..Len(spanEvents) : spanEvents[k].call = i}
DownOf(i) == {k \in 1..Len(odown) : odown[k].call = i}

\* C37: when WithRecordEvent is set and the span in the context is recording
\* and sampled, otel Handle records the record on the span once and, if
\* passThrough is false, returns nil without calling the downstream handler;
\* if passThrough is true it also forwards to downstream; when event
\* recording is not set or the span is not recording or not sampled, the
\* record is only forwarded to downstream.
C37_RecordEvent ==
    \A i \in 1..Len(ocalls) :
        LET c == ocalls[i].ctx
            recorded == otelCfg.recordEvent /\ c.recording /\ (c.flags % 2) = 1
        IN  ocalls[i].ret # "none" =>
                /\ Cardinality(EventsOf(i)) = (IF recorded THEN 1 ELSE 0)
                /\ Cardinality(DownOf(i)) =
                        (IF recorded /\ ~otelCfg.passThrough THEN 0 ELSE 1)
                /\ (recorded /\ ~otelCfg.passThrough) => ocalls[i].ret = "nil"
                /\ \A k \in DownOf(i) : ocalls[i].ret = odown[k].res

C37_Witness ==
    /\ otelNew.panic = NoPanic
    /\ otelCfg.recordEvent /\ ~otelCfg.passThrough
    /\ Len(ocalls) = 2 /\ opc = "idle"
    /\ ocalls[1].ctx.recording /\ ocalls[1].ctx.flags = 1 /\ ocalls[1].ret = "nil"
    /\ ocalls[1].level = LevelError
    /\ spanEvents = <<[call |-> 1, kind |-> "error"]>>
    /\ ocalls[2].ctx.recording /\ ocalls[2].ctx.flags = 0 /\ ocalls[2].ret = "err"
    /\ Len(odown) = 1 /\ odown[1].call = 2

\* C39: TraceSampler returns true exactly when the context carries no valid
\* span context or the span context is sampled, and false exactly when a
\* valid span context is present and not sampled.
C39_TraceSampler ==
    \A k \in 1..Len(sampleAsked) :
        LET c == sampleAsked[k].ctx
        IN  sampleAsked[k].res <=> (c.tid = 0 \/ c.sid = 0 \/ c.flags \in {1, 3})

C39_Witness ==
    /\ Len(sampleAsked) = 2
    /\ sampleAsked[1].ctx.tid = 0 /\ sampleAsked[1].ctx.sid = 0
    /\ sampleAsked[1].ctx.flags = 0 /\ sampleAsked[1].res
    /\ sampleAsked[2].ctx.tid = 1 /\ sampleAsked[2].ctx.sid = 1
    /\ sampleAsked[2].ctx.flags = 2 /\ ~sampleAsked[2].res

\* C36: in the sampling handler with the WithBufferSize option, when no
\* buffer size is configured or WithBufferSize(0) is given last, the queue of
\* a scope has capacity 10, so every call that defers a record into a freshly
\* acquired buffer returns: when no step is left to take, no caller is still
\* inside Handle.
C36_DefaultBufferSize ==
    (WithBufferSizes(0, sizeOpt) = 0 /\ made # {}) =>
        /\ bufferSize = 10
        /\ (~ENABLED NextSize) => AllReturned

\* Two scopes whose release function was not called hold the same buffer.
SharedBuffer ==
    \E s, t \in OpenScopes : s # t /\ ctxBuf[s] = ctxBuf[t]

\* C35 (as stated): also when release functions are called more than once,
\* no two WithBuffer calls receive the same buffer while the scopes of both
\* are active.
C35_ReleaseRepeatable == ~SharedBuffer

\* C35 (amended): two active scopes hold the same buffer only after some
\* release function was called more than once; each call of a release
\* function puts the buffer into the pool once more.
C35_SharedOnlyAfterRepeat ==
    /\ SharedBuffer => \E u \in Scopes : released[u] >= 2
    /\ (\A u \in Scopes : released[u] <= 1) => \A b \in BufIds : pool[b] <= 1

C35_Witness ==
    /\ released[1] = 2 /\ released[2] = 0 /\ released[3] = 0
    /\ ctxBuf[2] = ctxBuf[1] /\ ctxBuf[3] = ctxBuf[1]
    /\ Len(entries[ctxBuf[1]]) = 1
    /\ recs[1].ctx = 3 /\ recs[1].done

\* The ids of a sequence of entries.
IdsOf(q) == [k \in 1..Len(q) |-> q[k].id]

\* C28: in every state reached by sequential appends to an armed buffer the
\* queue holds at most its capacity, and between appends the arrival order
\* of the buffered entries is the overflow followed by the queue: every
\* overflow entry was appended before every entry still in the queue.
C28_OverflowOlder ==
    \A b \in BufIds :
        /\ Len(entries[b]) <= QueueCap
        /\ (spc[1] = "idle" /\ ~drained[b] /\ ctxBuf[1] = b) =>
            /\ IdsOf(Overflow(b)) \o IdsOf(entries[b]) = DeferredIds
            /\ \A k \in 1..Len(Overflow(b)), m \in 1..Len(entries[b]) :
                Overflow(b)[k].id < entries[b][m].id
            /\ Overflow(b) # <<>> => Len(entries[b]) = QueueCap

C28_Witness ==
    /\ spc[1] = "idle" /\ ctxBuf[1] = 1 /\ ~drained[1]
    /\ Len(Overflow(1)) = 2
    /\ Len(entries[1]) = QueueCap
    /\ Len(DeferredIds) = QueueCap + 2

\* The records deferred in the scope of record i before it, while no record
\* of the scope before i had drained the buffer.
PendingBefore(i) ==
    {d \in RecIds :
        /\ d < i /\ recs[d].deferred /\ recs[d].ctx = recs[i].ctx
        /\ ~\E j \in RecIds : j < i /\ recs[j].ctx = recs[i].ctx /\ recs[j].flipped}

\* C27 as claimed: when records were deferred in a scope and a later record
\* of the scope is handled with a positive sampling decision, the deferred
\* records are sent downstream, in order, before that record is forwarded.
C27_SampledDrains ==
    \A i \in SampledIds :
        (recs[i].ctx # 0 /\ recs[i].done) =>
            \A d \in PendingBefore(i) :
                \E k, m \in 1..Len(out) :
                    k < m /\ out[k].id = d /\ out[m].id = i

\* C27 as the code has it: a record handled with a positive sampling decision
\* is forwarded without draining: the records deferred in its scope are
\* still held by the buffer, unsent, when its Handle call returns.
C27_SampledLeavesDeferred ==
    \A i \in SampledIds :
        /\ ~recs[i].flipped
        /\ \A k \in 1..Len(out) : out[k].by = i => (out[k].via = "forward" /\ out[k].id = i)
        /\ (recs[i].ctx # 0 /\ Finished(i)) =>
            \A d \in PendingBefore(i) : Held(d) /\ OutOf(d) = {}

C27_Witness ==
    \E i \in SampledIds :
        /\ Finished(i) /\ recs[i].ctx = 1
        /\ Cardinality(PendingBefore(i)) = 2
        /\ Len(entries[ctxBuf[1]]) = 2
        /\ Len(out) = 1 /\ out[1].id = i

\* C29: drain sends every entry to the handler and with the context that
\* were captured when the entry was appended, never to the handler or the
\* context of the triggering record.
C29_OwnSnapshot ==
    \A k \in 1..Len(out) :
        /\ out[k].handler = recs[out[k].id].handler
        /\ out[k].ctx = recs[out[k].id].ctx

C29_Witness ==
    \E j \in RecIds :
        /\ recs[j].flipped /\ Finished(j)
        /\ Len(DrainedBy(j)) > QueueCap
        /\ out[1].via = "drain" /\ out[1].id = 1
        /\ out[1].handler # recs[j].handler /\ out[1].ctx # recs[j].ctx
        /\ out[2].via = "drain" /\ out[2].id = 2
        /\ out[2].handler = recs[j].handler /\ out[2].ctx = recs[j].ctx
        /\ out[Len(out)].id = j /\ out[Len(out)].handler = recs[j].handler

\* The scopes that were opened and in which no record was handled yet.
FreshScopes == {s \in OpenScopes : \A i \in RecIds : recs[i].ctx # s}

\* C24: a buffer handed out by WithBuffer is armed and empty (drained flag
\* false, queue empty, overflow empty) after any history of earlier scopes on
\* it, also with appends and drains of the earlier scope interleaved, so no
\* record of an earlier scope is sent downstream by a call of a later scope.
C24_AcquiredArmed ==
    /\ \A s \in FreshScopes :
        /\ ~drained[ctxBuf[s]]
        /\ entries[ctxBuf[s]] = <<>>
        /\ Overflow(ctxBuf[s]) = <<>>
    /\ \A k \in 1..Len(out) : out[k].ctx = recs[out[k].by].ctx

\* C25: in a scope where a qualifying record triggered the drain, every
\* below-minimum unsampled record whose Handle call has returned has been
\* sent to its downstream handler exactly once, by the drain or directly,
\* once the calls of the scope have returned; also when its append ran
\* concurrently with the drain.
C25_NoneStranded ==
    AllReturned =>
        \A i \in RecIds :
            (recs[i].level < level /\ ~recs[i].sampled /\ recs[i].done
                /\ ScopeDrained(recs[i].ctx))
            => Cardinality(OutOf(i)) = 1

\* The qualifying unsampled records handled in a buffered scope.
Triggers ==
    {j \in RecIds : recs[j].level >= level /\ ~recs[j].sampled /\ recs[j].ctx # 0}

\* Every record deferred in the scope of record j before the call of j started
\* was sent downstream before record j was.
SentAfterDeferred(j) ==
    \A k \in OutOf(j) :
        \A n \in 1..Len(DeferredBefore(j)) :
            \E m \in 1..(k - 1) : out[m].id = DeferredBefore(j)[n]

\* C26: every qualifying unsampled record of a buffered scope is sent
\* downstream after every record deferred in the scope before its Handle call
\* started; this for every qualifying record, so also for each of two handled
\* concurrently, of which only one performs the flush.
C26_TriggerOrder == \A j \in Triggers : SentAfterDeferred(j)

\* C32: counters.get is a function of (level, key): for every level, also
\* below Debug and above Error, and every key, it returns the same cell on
\* every call, with the level-bucket index in [0, levels) and the shard index
\* in [0, 4096), so no Handle call indexes outside the table.
C32_GetInBounds ==
    /\ \A i \in CallIds :
        /\ calls[i].cell[1] >= 0 /\ calls[i].cell[1] < levels
        /\ calls[i].cell[2] >= 0 /\ calls[i].cell[2] < 4096
        /\ \A j \in CallIds :
            (calls[i].level = calls[j].level /\ calls[i].msg = calls[j].msg)
                => calls[i].cell = calls[j].cell
    /\ \A p \in Procs : rpc[p] # "panic"

C32_Witness ==
    /\ Len(calls) = 3 /\ rpc[1] = "idle"
    /\ calls[1].level < LevelDebug /\ calls[1].msg = MsgA /\ calls[1].n = 1
    /\ calls[2].level > LevelError /\ calls[2].msg = MsgMsg /\ calls[2].n = 1
    /\ calls[3].level < LevelDebug /\ calls[3].msg = MsgA /\ calls[3].n = 2

\* The callers whose CompareAndSwap of resetAt succeeds in this step.
Resetting ==
    {p \in Procs : rpc[p] = "stored" /\ calls'[rcall[p]].path = "reset"}

\* C34: with a positive interval, no step of any interleaving of Inc calls
\* decreases the resetAt of a counter, and each successful window reset
\* strictly increases the resetAt of the caller's counter.
C34_ResetAtMonotone ==
    [][interval > 0 =>
        /\ \A c \in Cells : resetAt'[c] >= resetAt[c]
        /\ \A p \in Resetting :
            resetAt'[calls[rcall[p]].cell] > resetAt[calls[rcall[p]].cell]]_vars

C34_Witness ==
    /\ interval > 0
    /\ Len(calls) = 3
    /\ calls[1].path = "reset" /\ calls[1].time = 1
    /\ calls[2].path = "raced" /\ calls[2].time = 0
    /\ calls[3].path = "reset" /\ calls[3].time = MaxTime
    /\ resetAt[calls[3].cell] = MaxTime + interval

\* The counter cells this step changes.
ChangedCells == {c \in Cells : resetAt'[c] # resetAt[c] \/ counter'[c] # counter[c]}

\* The callers of rate Handle that take this step.
Stepping == {p \in Procs : rpc'[p] # rpc[p]}

\* C31: a step of a rate Handle call changes at most the one counter cell
\* that (record.Level, record.Message) select in the handler's table, and
\* leaves every other cell and first, every and interval unchanged; Enabled,
\* WithAttrs and WithGroup change no counter cell.
C31_HandleFrame ==
    [][/\ Cardinality(ChangedCells) <= 1
       /\ \A c \in ChangedCells : \E p \in Stepping :
            /\ <<c[1], c[2]>> = get(rrec[p].level, rrec[p].msg)
            /\ c[3] = handlers[calls[rcall[p]].via].counts
       /\ first' = first /\ every' = every /\ interval' = interval
       /\ (renabled' # renabled \/ handlers' # handlers) => ChangedCells = {}]_vars

C31_Witness ==
    /\ Len(handlers) = 3 /\ Len(renabled) = 1
    /\ Len(calls) = 2 /\ rpc[1] = "idle"
    /\ calls[1].msg = MsgMsg /\ calls[2].msg = MsgA
    /\ counter[calls[1].cell] = 1 /\ counter[calls[2].cell] = 1
    /\ resetAt[calls[1].cell] = interval /\ resetAt[calls[2].cell] = interval
    /\ \A c \in Cells \ {calls[1].cell, calls[2].cell} :
        counter[c] = 0 /\ resetAt[c] = 0

\* The calls before call i that carry the same message.
SameMsgBefore(i) == {j \in CallIds : j < i /\ calls[j].msg = calls[i].msg}

\* C33: the handlers WithAttrs and WithGroup return use the counter table of
\* the handler they come from: records with one (level, message) logged
\* through the original and through derived handlers, in one window, get the
\* ordinals 1, 2, ... of one counter and are limited together, each forwarded
\* record going to the downstream handler of the handler it was logged through.
C33_SharedCounters ==
    /\ \A h \in HandlerIds : handlers[h].counts = handlers[1].counts
    /\ \A i \in CallIds :
        /\ calls[i].n # 0 => calls[i].n = Cardinality(SameMsgBefore(i)) + 1
        /\ Done(i) => (calls[i].out = "forwarded" <=> SameMsgBefore(i) = {})
    /\ \A k \in 1..Len(delivered) :
        delivered[k].handler = handlers[calls[delivered[k].call].via].handler

C33_Witness ==
    /\ Len(handlers) = 3
    /\ handlers[3].handler = <<"attrs", "group">>
    /\ Len(calls) = 2 /\ rpc[1] = "idle"
    /\ calls[1].via = 3 /\ calls[1].msg = MsgMsg /\ calls[1].out = "forwarded"
    /\ calls[2].via = 1 /\ calls[2].msg = MsgMsg /\ calls[2].n = 2
    /\ calls[2].out = "dropped"
    /\ Len(delivered) = 1 /\ delivered[1].handler = <<"attrs", "group">>

(***************************************************************************)
(* The FNV-1a 32-bit reference, on words kept as four bytes, lowest first. *)
(***************************************************************************)
RefOffset == <<197, 157, 28, 129>>     \* 2166136261 = 0x811C9DC5
RefPrime == 16777619                    \* 2^24 + 403

\* Bit k of a byte.
RefBit(a, k) == (a \div (2 ^ k)) % 2

RefXorByte(a, b) ==
    LET Bits == [k \in 0..7 |-> ((RefBit(a, k) + RefBit(b, k)) % 2) * (2 ^ k)]
    IN  Bits[0] + Bits[1] + Bits[2] + Bits[3] + Bits[4] + Bits[5] + Bits[6] + Bits[7]

\* (w * RefPrime) mod 2^32: the low 24 bits of the prime multiply bytewise
\* with carry, its bit 24 adds the lowest byte of w to the highest.
RefMul(w) ==
    LET low == RefPrime % (2 ^ 24)
        top == RefPrime \div (2 ^ 24)
        t0 == w[1] * low
        t1 == (w[2] * low) + (t0 \div 256)
        t2 == (w[3] * low) + (t1 \div 256)
        t3 == (w[4] * low) + (t2 \div 256) + (w[1] * top)
    IN  <<t0 % 256, t1 % 256, t2 % 256, t3 % 256>>

RECURSIVE RefFnv(_, _)
RefFnv(w, str) ==
    IF str = <<>> THEN w
    ELSE RefFnv(RefMul(<<RefXorByte(w[1], Head(str)), w[2], w[3], w[4]>>), Tail(str))

\* The reference hash of a key, as <<high 16 bits, low 16 bits>>.
RefHash(str) ==
    LET w == RefFnv(RefOffset, str)
    IN  <<(w[4] * 256) + w[3], (w[2] * 256) + w[1]>>

\* C38: fnv32a is the FNV-1a 32-bit reference: from 2166136261, for each byte
\* in order hash = ((hash XOR byte) * 16777619) mod 2^32; the empty key
\* hashes to 2166136261; the shard index of a record's cell is that hash
\* modulo 4096.
C38_Fnv32aReference ==
    /\ fnv32a(MsgEmpty) = <<(RefOffset[4] * 256) + RefOffset[3],
                            (RefOffset[2] * 256) + RefOffset[1]>>
    /\ \A i \in CallIds :
        /\ fnv32a(calls[i].msg) = RefHash(calls[i].msg)
        /\ calls[i].cell[2] = RefHash(calls[i].msg)[2] % 4096

C38_Witness ==
    /\ Len(calls) = 2
    /\ calls[1].msg = MsgFoobar /\ calls[1].cell[2] = 2408 /\ calls[1].n = 1
    /\ calls[2].msg = MsgEmpty /\ calls[2].cell[2] = 3525 /\ calls[2].n = 1

=============================================================================
